---- MODULE Spec2Model ----
(***************************************************************************)
(* Identity and presence resolution of the paraverse WebSocket hub.        *)
(*                                                                         *)
(* The model follows src/server.js (WebSocketServer), the connection       *)
(* registry src/managers/ClientManager.js and the latest UserManager       *)
(* (src/unnamed/part_004).  One action stands for one handler run to its   *)
(* next await: handleIdentity is cut at the two awaits it goes through     *)
(* (the await inside processUserIdentity and the await of its result),     *)
(* every other handler is one action.                                      *)
(*                                                                         *)
(* Strings of the program are modelled as follows.  A fingerprint is the   *)
(* sequence of its characters, so that getStableFingerprint is computed on *)
(* the text.  A user id is a pair <<origin, n>>: <<"client", n>> is an id  *)
(* invented by a client, <<"minted", n>> the n-th id minted by the server  *)
(* (`user-${Date.now()}-${random}`, taken to be fresh).  A name is a pair  *)
(* too: <<"Given", n>> a client-provided name, <<"Guest", n>> Guest<n>.    *)
(* The falsy values (null, undefined, "") are NoId, NoFp and NoName.       *)
(***************************************************************************)
EXTENDS Integers, Sequences, FiniteSets, TLC

VARIABLES
    now,               \* Date.now()
    nextConn,          \* connections accepted so far + 1 (each ws is a new object)
    connectedClients,  \* ClientManager.connectedClients : ws -> metadata
    wsClosing,         \* ws objects on which the server called ws.close()
    ipConnections,     \* ClientManager.ipConnections : ip -> attempts, blockedUntil
    pending,           \* handleIdentity calls suspended at an await : ws -> frame
    browserToUser,     \* UserManager.browserToUser : stable fingerprint -> binding object
    fpOrder,           \* insertion order of the browserToUser Map
    bindingObj,        \* the binding objects, shared between fingerprints (by userId)
    users,             \* UserManager.users : userId -> identity record
    userStats,         \* UserManager.userStats : userId -> statistics record
    guestCounter,      \* UserManager.guestCounter
    mintCounter,       \* number of ids minted so far
    lastAdmit,         \* outcome of the last shouldAllowConnection call
    closedWith,        \* what the last step closed: <<ws or 0, close code>>
    broadcasts,        \* the presence snapshots published by the last step
    outbox,            \* the fan-out send of the last step: kind, receivers, frame
    sendFails,         \* ws objects whose send() throws
    voice,             \* VoiceManager : the participant, talking, muted, no-mic sets
    voiceSent,         \* the voice messages sent by the last step
    admitted,          \* ip -> times of the attempts admitted in the last window
    messages,          \* ChatManager.messages
    handler            \* the last step: <<handler, ws>>

vars == <<now, nextConn, connectedClients, wsClosing, ipConnections, pending,
          browserToUser, fpOrder, bindingObj, users, userStats, guestCounter,
          mintCounter, lastAdmit, closedWith, broadcasts, outbox, sendFails,
          voice, voiceSent, admitted, messages, handler>>

----------------------------------------------------------------------------
(* Bounds of the model *)

MaxConns == 2        \* connections accepted in a run of Spec
MaxClaims == 1        \* identity claims one connection sends
MaxMint == 1         \* ids the server mints in a run
MaxTicks == 1        \* clock advances in a run of Spec
TickMs == 86400001   \* one clock advance of Spec: a day and a millisecond
CapInFlight == 1      \* handleIdentity calls suspended at once in SpecCap
PairTicks == 3        \* clock advances in a run of SpecRatePair
PairTickMs == 60000   \* one clock advance of SpecRatePair: 60 seconds
CapExtra == 2        \* connections beyond the cap in a run of SpecCap
RateTicks == 6       \* clock advances in a run of SpecRate
RateTickMs == 30000  \* one clock advance of SpecRate: 30 seconds
SnapExtra == 2       \* players beyond the snapshot cap in a run of SpecSnap
SendConns == 3       \* connections accepted in a run of SpecSend
GateExtra == 2       \* connection attempts beyond the rate limit in a run of SpecGate
GateTicks == 3       \* clock advances, of PairTickMs, in a run of SpecGate

(* Constants of the program *)

MAX_CONNECTIONS_PER_USER == 5
MAX_USERS_TO_BROADCAST == 100
INACTIVE_THRESHOLD == 24 * 60 * 60 * 1000
MAX_INACTIVE_TIME == 7 * 24 * 60 * 60 * 1000
RATE_WINDOW == 60000
RATE_MAX_ATTEMPTS == 20
RATE_BLOCK == 120000
TIMESTAMP_MIN_DIGITS == 9

----------------------------------------------------------------------------
(* Values *)

NoId == <<"none", 0>>
NoName == <<"None", 0>>
NoFp == << >>

ClientId1 == <<"client", 1>>
Minted(n) == <<"minted", n>>
GivenName(n) == <<"Given", n>>
GuestName(n) == <<"Guest", n>>

Digits == {"0", "1", "2", "3", "4", "5", "6", "7", "8", "9"}
DigitRun(n) == [i \in 1..n |-> "7"]

\* "a", "b": two browsers; "a-777777777": browser a with a 9-digit timestamp
\* suffix; "a-77777777": 8 digits, which is no timestamp for the pattern.
FpA == <<"a">>
FpB == <<"b">>
FpATs == <<"a", "-">> \o DigitRun(TIMESTAMP_MIN_DIGITS)
FpAShort == <<"a", "-">> \o DigitRun(TIMESTAMP_MIN_DIGITS - 1)

Ip1 == "10.0.0.1"
Ip2 == "10.0.0.2"

\* A JSON value is its type (typeof) and its text; a field the message does
\* not carry is undefined.
Num(text) == [t |-> "number", v |-> text]
Str(text) == [t |-> "string", v |-> text]
Null == [t |-> "object", v |-> << >>]
Undefined == [t |-> "undefined", v |-> << >>]

\* A frame a client sends: whether JSON.parse accepts it, and the fields of
\* the parsed message the handlers read.
Frame(type, browserFingerprint, userId, userName, stat, value) ==
    [parses |-> TRUE, type |-> type, browserFingerprint |-> browserFingerprint,
     userId |-> userId, userName |-> userName, stat |-> stat, value |-> value]
NoFrame == [Frame("", NoFp, NoId, NoName, "", Undefined) EXCEPT !.parses = FALSE]

\* Map helpers: a Map is a function whose DOMAIN is its key set.
MapSet(m, k, v) == [x \in (DOMAIN m) \cup {k} |-> IF x = k THEN v ELSE m[x]]
MapDelete(m, k) == [x \in (DOMAIN m) \ {k} |-> m[x]]
EmptyMap == [x \in {} |-> 0]

SeqRemove(s, k) == SelectSeq(s, LAMBDA x : x # k)
Range(s) == {s[i] : i \in DOMAIN s}

----------------------------------------------------------------------------
(* UserManager.getStableFingerprint: strip a trailing /-\d{9,}$/ *)

TrailingDigits(fp) ==
    LET n == Len(fp)
        S == {k \in 0..n : \A i \in (n - k + 1)..n : fp[i] \in Digits}
    IN  CHOOSE k \in S : \A j \in S : j <= k

TimestampPatternTest(fp) ==
    LET d == TrailingDigits(fp)
    IN  /\ d >= TIMESTAMP_MIN_DIGITS
        /\ Len(fp) > d
        /\ fp[Len(fp) - d] = "-"

\* The fingerprint taken as presented, with no normalization.
getStableFingerprint_Raw(fp) == fp

getStableFingerprint(fp) ==
    IF fp = NoFp THEN fp
    ELSE IF TimestampPatternTest(fp)
         THEN SubSeq(fp, 1, Len(fp) - TrailingDigits(fp) - 1)
         ELSE fp

----------------------------------------------------------------------------
(* ClientManager *)

NewClient(ip) == [userId |-> NoId, browserFingerprint |-> NoFp, ip |-> ip, claims |-> 0]

\* The sibling test finding no connection.
hasBrowserConnections_None(clients, fingerprint) == FALSE

hasBrowserConnections(clients, fingerprint) ==
    \E c \in DOMAIN clients : clients[c].browserFingerprint = fingerprint

getConnectionsByUserId(clients, userId) ==
    {c \in DOMAIN clients : clients[c].userId = userId}

hasUserExceededConnectionLimit(clients, userId) ==
    Cardinality(getConnectionsByUserId(clients, userId)) > MAX_CONNECTIONS_PER_USER

NoIpData == [connectionAttempts |-> << >>, blockedUntil |-> 0]

IpData(ipc, ip) == IF ip \in DOMAIN ipc THEN ipc[ip] ELSE NoIpData

\* The gate without its block test.
IsBlocked_Never(ipData, t) == FALSE

IsBlocked(ipData, t) == ipData.blockedUntil > t

\* The window at half its length.
InWindow_Half(time, t) == t - time < RATE_WINDOW \div 2

InWindow(time, t) == t - time < RATE_WINDOW

\* The limit applied one attempt early.
TooManyAttempts_AtLimit(attempts) == Len(attempts) >= RATE_MAX_ATTEMPTS

TooManyAttempts(attempts) == Len(attempts) > RATE_MAX_ATTEMPTS

\* The result and the ipConnections Map after shouldAllowConnection(clientIp).
shouldAllowConnection(ipc, clientIp, t) ==
    LET ipData == IpData(ipc, clientIp)
        kept == SelectSeq(ipData.connectionAttempts, LAMBDA time : InWindow(time, t))
        attempts == Append(kept, t)
    IN  IF IsBlocked(ipData, t)
        THEN [allowed |-> FALSE, ipConnections |-> ipc]
        ELSE IF TooManyAttempts(attempts)
        THEN [allowed |-> FALSE,
              ipConnections |-> MapSet(ipc, clientIp,
                  [connectionAttempts |-> attempts, blockedUntil |-> t + RATE_BLOCK])]
        ELSE [allowed |-> TRUE,
              ipConnections |-> MapSet(ipc, clientIp,
                  [connectionAttempts |-> attempts, blockedUntil |-> ipData.blockedUntil])]

----------------------------------------------------------------------------
(* UserManager.  Its methods are operators from the manager's state (a      *)
(* record um of its Maps and counters) to the state they leave.            *)
(*                                                                         *)
(* browserToUser maps a fingerprint to a binding object, and step 2 of     *)
(* processUserIdentity stores one object under a second fingerprint, so    *)
(* that a write through either key is seen through both.  A binding object *)
(* is created only in the new-browser branch, with a userId that no        *)
(* binding carries at that moment (step 2 found none, or the id is newly   *)
(* minted): the live objects are told apart by their userId.  The model    *)
(* keeps the objects in bindingObj, keyed by userId, and browserToUser     *)
(* holds the key of the object.                                            *)

UM == [browserToUser |-> browserToUser, fpOrder |-> fpOrder,
       bindingObj |-> bindingObj, users |-> users, userStats |-> userStats,
       guestCounter |-> guestCounter, mintCounter |-> mintCounter]

SetUM(um) ==
    /\ browserToUser' = um.browserToUser
    /\ fpOrder' = um.fpOrder
    /\ bindingObj' = um.bindingObj
    /\ users' = um.users
    /\ userStats' = um.userStats
    /\ guestCounter' = um.guestCounter
    /\ mintCounter' = um.mintCounter

umVars == <<browserToUser, fpOrder, bindingObj, users, userStats, guestCounter,
            mintCounter>>

\* The player stats a new statistics record starts with.
InitialGameStats ==
    [stat \in {"level", "health", "attack", "ability", "weapon", "emblem",
               "timePlayed", "deliveriesMade"} |->
        CASE stat = "level" -> Num(<<"1">>)
          [] stat = "health" -> Num(<<"1", "0", "0", "0">>)
          [] stat \in {"attack", "ability", "deliveriesMade"} -> Num(<<"0">>)
          [] stat \in {"weapon", "emblem"} -> Str(<<"N", "o", "n", "e">>)
          [] stat = "timePlayed" -> Str(<<"0", "d", " ", "0", "h">>)]

\* initUserStats: create the record, status online, unless there is one.
initUserStats(um, userId) ==
    IF userId \in DOMAIN um.userStats THEN um
    ELSE [um EXCEPT !.userStats =
              MapSet(@, userId, [status |-> "online", game |-> InitialGameStats])]

\* getUserStats(userId) followed by stats.status = status.
SetStatsStatus(um, userId, status) ==
    LET um1 == initUserStats(um, userId)
    IN  [um1 EXCEPT !.userStats[userId].status = status]

SetUsersStatus(um, userId, status) ==
    IF userId \in DOMAIN um.users
    THEN [um EXCEPT !.users[userId].status = status]
    ELSE um

\* The fingerprints whose binding carries userId, in Map order.
FingerprintsOf(um, userId) ==
    SelectSeq(um.fpOrder, LAMBDA fp : um.browserToUser[fp] = userId)

updateUserActivity(um, browserFingerprint, t) ==
    IF browserFingerprint \in DOMAIN um.browserToUser
    THEN LET userId == um.browserToUser[browserFingerprint]
             um1 == [um EXCEPT !.bindingObj[userId].lastActivity = t,
                               !.bindingObj[userId].status = "online"]
         IN  SetStatsStatus(um1, userId, "online")
    ELSE um

\* The status update left out.
updateUserStatus_Skip(um, userId, status) == um

updateUserStatus(um, userId, status) ==
    IF FingerprintsOf(um, userId) # << >>
    THEN LET um1 == [um EXCEPT !.bindingObj[userId].status = status]
         IN  SetStatsStatus(SetUsersStatus(um1, userId, status), userId, status)
    ELSE um

updateUserName(um, userId, newName, t) ==
    IF FingerprintsOf(um, userId) # << >>
    THEN LET um1 == [um EXCEPT !.bindingObj[userId].userName = newName,
                               !.bindingObj[userId].lastActivity = t]
         IN  IF userId \in DOMAIN um1.users
             THEN [um1 EXCEPT !.users[userId].name = newName]
             ELSE um1
    ELSE um

\* updateUserName returns true.
updateUserNameFinds(um, userId) == FingerprintsOf(um, userId) # << >>

\* allowedStats of updatePlayerGameStat.
allowedStats ==
    {"level", "health", "attack", "ability", "weapon", "emblem", "timePlayed",
     "animationState", "deliveriesMade"}

\* allowedStats.includes(stat)
StatAllowed(stat) == stat \in allowedStats

\* updatePlayerGameStat: getUserStats creates the record of a userId that has
\* none.
updatePlayerGameStat(um, userId, stat, value) ==
    LET um1 == initUserStats(um, userId)
    IN  IF StatAllowed(stat)
        THEN [um1 EXCEPT !.userStats[userId].game = MapSet(@, stat, value)]
        ELSE um1

\* getUserById: the users entry, else an object built from the first binding
\* that carries the id, else null.
NoUser == [id |-> NoId, name |-> NoName, status |-> "none"]

getUserById(um, userId) ==
    IF userId \in DOMAIN um.users
    THEN [id |-> userId, name |-> um.users[userId].name,
          status |-> um.users[userId].status]
    ELSE IF FingerprintsOf(um, userId) # << >>
    THEN [id |-> userId, name |-> um.bindingObj[userId].userName,
          status |-> um.bindingObj[userId].status]
    ELSE NoUser

----------------------------------------------------------------------------
(* UserManager.processUserIdentity, the part after its await *)

\* Step 1 finding no binding.
ExactBinding_Miss(um, stableFingerprint) == NoId

\* Step 1: the binding stored under the stable fingerprint, NoId if none.
ExactBinding(um, stableFingerprint) ==
    IF stableFingerprint \in DOMAIN um.browserToUser
    THEN um.browserToUser[stableFingerprint]
    ELSE NoId

\* Step 2 finding no binding.
SimilarBinding_Miss(um, providedUserId) == NoId

\* Step 2: some binding carries the provided userId.
SimilarBinding(um, providedUserId) ==
    IF providedUserId # NoId /\ FingerprintsOf(um, providedUserId) # << >>
    THEN providedUserId
    ELSE NoId

\* Step 2 stores the found object under the stable fingerprint as well.
LearnFingerprint(um, stableFingerprint, userId) ==
    [um EXCEPT !.browserToUser = MapSet(@, stableFingerprint, userId),
               !.fpOrder = Append(@, stableFingerprint)]

\* lastActivity || firstSeen || 0
LastSeen(obj) ==
    IF obj.lastActivity # 0 THEN obj.lastActivity ELSE obj.firstSeen

\* The conflict check of the new-browser branch: is any binding that carries
\* the provided id recent?
ActiveConflict(um, providedUserId, t) ==
    \E i \in DOMAIN FingerprintsOf(um, providedUserId) :
        t - LastSeen(um.bindingObj[um.browserToUser[FingerprintsOf(um, providedUserId)[i]]])
            < MAX_INACTIVE_TIME

IsProvidedUserIdValid(um, providedUserId, t) ==
    /\ providedUserId # NoId
    /\ ~ (FingerprintsOf(um, providedUserId) # << >>
          /\ ActiveConflict(um, providedUserId, t))

ConflictDetected(um, providedUserId, t) ==
    /\ providedUserId # NoId
    /\ FingerprintsOf(um, providedUserId) # << >>
    /\ ActiveConflict(um, providedUserId, t)

\* The returning branch without its rename.
ReturningUser_KeepName(um, userId, providedUserName) ==
    LET um3 == [um EXCEPT !.bindingObj[userId].status = "online"]
        um4 == SetStatsStatus(SetUsersStatus(um3, userId, "online"), userId, "online")
    IN  [um |-> um4,
         result |-> [userId |-> userId,
                     userName |-> um4.bindingObj[userId].userName,
                     isReturning |-> TRUE,
                     conflictDetected |-> FALSE]]

ReturningUser(um, userId, providedUserName) ==
    LET rename == providedUserName # NoName
                  /\ providedUserName # um.bindingObj[userId].userName
        um1 == IF rename
               THEN [um EXCEPT !.bindingObj[userId].userName = providedUserName]
               ELSE um
        um2 == IF rename /\ userId \in DOMAIN um1.users
               THEN [um1 EXCEPT !.users[userId].name = providedUserName]
               ELSE um1
        um3 == [um2 EXCEPT !.bindingObj[userId].status = "online"]
        um4 == SetStatsStatus(SetUsersStatus(um3, userId, "online"), userId, "online")
    IN  [um |-> um4,
         result |-> [userId |-> userId,
                     userName |-> um4.bindingObj[userId].userName,
                     isReturning |-> TRUE,
                     conflictDetected |-> FALSE]]

\* The new-browser branch with a guest counter that stays.
NewUser_SameGuest(um, stableFingerprint, providedUserId, providedUserName, t) ==
    LET valid == IsProvidedUserIdValid(um, providedUserId, t)
        userId == IF valid THEN providedUserId ELSE Minted(um.mintCounter + 1)
        userName == IF providedUserName # NoName THEN providedUserName
                    ELSE GuestName(um.guestCounter)
        um1 == [um EXCEPT
                  !.mintCounter = IF valid THEN @ ELSE @ + 1,
                  !.browserToUser = MapSet(@, stableFingerprint, userId),
                  !.fpOrder = Append(SeqRemove(@, stableFingerprint), stableFingerprint),
                  !.bindingObj = MapSet(@, userId,
                      [userName |-> userName, status |-> "online",
                       firstSeen |-> t, lastActivity |-> t]),
                  !.users = MapSet(@, userId, [name |-> userName, status |-> "online"])]
    IN  [um |-> SetStatsStatus(um1, userId, "online"),
         result |-> [userId |-> userId,
                     userName |-> userName,
                     isReturning |-> FALSE,
                     conflictDetected |-> ConflictDetected(um, providedUserId, t)]]

NewUser(um, stableFingerprint, providedUserId, providedUserName, t) ==
    LET valid == IsProvidedUserIdValid(um, providedUserId, t)
        userId == IF valid THEN providedUserId ELSE Minted(um.mintCounter + 1)
        userName == IF providedUserName # NoName THEN providedUserName
                    ELSE GuestName(um.guestCounter)
        um1 == [um EXCEPT
                  !.mintCounter = IF valid THEN @ ELSE @ + 1,
                  !.guestCounter = IF providedUserName # NoName THEN @ ELSE @ + 1,
                  !.browserToUser = MapSet(@, stableFingerprint, userId),
                  !.fpOrder = Append(SeqRemove(@, stableFingerprint), stableFingerprint),
                  !.bindingObj = MapSet(@, userId,
                      [userName |-> userName, status |-> "online",
                       firstSeen |-> t, lastActivity |-> t]),
                  !.users = MapSet(@, userId, [name |-> userName, status |-> "online"])]
    IN  [um |-> SetStatsStatus(um1, userId, "online"),
         result |-> [userId |-> userId,
                     userName |-> userName,
                     isReturning |-> FALSE,
                     conflictDetected |-> ConflictDetected(um, providedUserId, t)]]

processUserIdentity(um, browserFingerprint, providedUserId, providedUserName, t) ==
    LET stableFingerprint == getStableFingerprint(browserFingerprint)
        exact == ExactBinding(um, stableFingerprint)
        similar == IF exact = NoId THEN SimilarBinding(um, providedUserId) ELSE NoId
    IN  IF exact # NoId
        THEN ReturningUser(um, exact, providedUserName)
        ELSE IF similar # NoId
        THEN ReturningUser(LearnFingerprint(um, stableFingerprint, similar),
                           similar, providedUserName)
        ELSE NewUser(um, stableFingerprint, providedUserId, providedUserName, t)

\* The call mints an id: the model bounds the ids minted in a run.
MintsId(um, browserFingerprint, providedUserId, t) ==
    /\ ExactBinding(um, getStableFingerprint(browserFingerprint)) = NoId
    /\ SimilarBinding(um, providedUserId) = NoId
    /\ ~ IsProvidedUserIdValid(um, providedUserId, t)

----------------------------------------------------------------------------
(* UserManager.broadcastUserList: the message it sends to every client *)

SnapshotEntry(um, fingerprint) ==
    LET userId == um.browserToUser[fingerprint]
    IN  [id |-> userId,
         name |-> um.bindingObj[userId].userName,
         status |-> um.bindingObj[userId].status]

\* The snapshot loop without its seen-set test.
AlreadySeen_Never(userId, seenUserIds) == FALSE

\* seenUserIds.has(userData.userId)
AlreadySeen(userId, seenUserIds) == userId \in seenUserIds

\* The body of the forEach over browserToUser, for the entry at position i
\* of the Map.
CollectStep(um, i, c) ==
    LET userId == um.browserToUser[um.fpOrder[i]]
    IN  IF ~ AlreadySeen(userId, c.seenUserIds)
           /\ Len(c.activeUsers) < MAX_USERS_TO_BROADCAST
        THEN [activeUsers |-> Append(c.activeUsers, SnapshotEntry(um, um.fpOrder[i])),
              seenUserIds |-> c.seenUserIds \cup {userId}]
        ELSE c

\* The forEach over the entries at positions lo..hi, in Map order.  The range
\* is walked by halves, and the length test, never true, has the accumulator
\* evaluated before the descent: both keep the evaluation shallow.
RECURSIVE CollectUsers(_, _, _, _)
CollectUsers(um, lo, hi, c) ==
    IF lo > hi \/ Len(c.activeUsers) < 0 THEN c
    ELSE IF lo = hi THEN CollectStep(um, lo, c)
    ELSE LET mid == (lo + hi) \div 2
         IN  CollectUsers(um, mid + 1, hi, CollectUsers(um, lo, mid, c))

broadcastUserList(um) ==
    LET c == CollectUsers(um, 1, Len(um.fpOrder),
                          [activeUsers |-> << >>, seenUserIds |-> {}])
    IN  IF Cardinality(c.seenUserIds) > MAX_USERS_TO_BROADCAST
        THEN [type |-> "userListTruncated", users |-> c.activeUsers,
              total |-> Cardinality(c.seenUserIds), shown |-> MAX_USERS_TO_BROADCAST]
        ELSE [type |-> "userList", users |-> c.activeUsers,
              total |-> Len(c.activeUsers), shown |-> Len(c.activeUsers)]

----------------------------------------------------------------------------
(* UserManager.pruneInactiveBrowsers *)

\* The first forEach, from position i of the Map on: bindings without a
\* connection are set offline, the old ones among them are collected.
RECURSIVE MarkInactive(_, _, _, _, _)
MarkInactive(um, clients, t, i, browsersToPrune) ==
    IF i > Len(um.fpOrder)
    THEN [um |-> um, browsersToPrune |-> browsersToPrune]
    ELSE LET fingerprint == um.fpOrder[i]
             userId == um.browserToUser[fingerprint]
             lastActivity == um.bindingObj[userId].lastActivity
         IN  IF hasBrowserConnections(clients, fingerprint)
             THEN MarkInactive(um, clients, t, i + 1, browsersToPrune)
             ELSE MarkInactive(
                    SetUsersStatus(
                      SetStatsStatus(
                        [um EXCEPT !.bindingObj[userId].status = "offline"],
                        userId, "offline"),
                      userId, "offline"),
                    clients, t, i + 1,
                    IF lastActivity # 0 /\ t - lastActivity > INACTIVE_THRESHOLD
                    THEN Append(browsersToPrune, fingerprint)
                    ELSE browsersToPrune)

\* A binding object no fingerprint refers to any more is unreachable.
DropUnreferenced(um) ==
    [um EXCEPT !.bindingObj =
        [u \in {um.browserToUser[fp] : fp \in DOMAIN um.browserToUser} |-> @[u]]]

\* The second forEach: the statistics and the binding of each collected
\* fingerprint are deleted.
RECURSIVE PruneBrowsers(_, _, _)
PruneBrowsers(um, browsersToPrune, i) ==
    IF i > Len(browsersToPrune)
    THEN DropUnreferenced(um)
    ELSE LET fingerprint == browsersToPrune[i]
         IN  PruneBrowsers(
               [um EXCEPT !.userStats = MapDelete(@, um.browserToUser[fingerprint]),
                          !.browserToUser = MapDelete(@, fingerprint),
                          !.fpOrder = SeqRemove(@, fingerprint)],
               browsersToPrune, i + 1)

\* The sweep reporting no eviction.
pruneInactiveBrowsers_NoCount(um, clients, t) ==
    LET marked == MarkInactive(um, clients, t, 1, << >>)
    IN  [um |-> PruneBrowsers(marked.um, marked.browsersToPrune, 1),
         pruned |-> 0]

pruneInactiveBrowsers(um, clients, t) ==
    LET marked == MarkInactive(um, clients, t, 1, << >>)
    IN  [um |-> PruneBrowsers(marked.um, marked.browsersToPrune, 1),
         pruned |-> Len(marked.browsersToPrune)]

----------------------------------------------------------------------------
(* WebSocketServer.validatePlayerStat *)

numberStats == {"level", "health", "attack", "ability"}
stringStats == {"weapon", "emblem", "animationState"}

\* /^\d+d \d+h$/.test(val)
TimePlayedPatternTest(text) ==
    \E i \in 2..(Len(text) - 3) :
        /\ \A j \in 1..(i - 1) : text[j] \in Digits
        /\ text[i] = "d"
        /\ text[i + 1] = " "
        /\ \A j \in (i + 2)..(Len(text) - 1) : text[j] \in Digits
        /\ text[Len(text)] = "h"

\* validationRules.hasOwnProperty(stat)
HasValidationRule(stat) == stat \in numberStats \cup stringStats \cup {"timePlayed"}

validatePlayerStat(stat, value) ==
    /\ HasValidationRule(stat)
    /\ IF stat \in numberStats THEN value.t = "number"
       ELSE IF stat \in stringStats THEN value.t = "string"
       ELSE value.t = "string" /\ TimePlayedPatternTest(value.v)

----------------------------------------------------------------------------
(* Sending to the clients of the server.  wss.clients is a Set: forEach     *)
(* visits the ws objects in the order the connections were accepted, which  *)
(* is the order of their numbers.                                           *)

\* Variant of OpenClients that leaves out the connections that have not
\* identified.
OpenClients_Identified(clients, closing) ==
    {c \in (DOMAIN clients) \ closing : clients[c].userId # NoId}

\* The clients whose readyState is OPEN.
OpenClients(clients, closing) == (DOMAIN clients) \ closing

\* A send error leaving the forEach.
SendErrorEscapes_Uncaught(client, fails) == client \in fails

\* Each send has its own try/catch: no send error leaves the forEach.
SendErrorEscapes(client, fails) == FALSE

\* The clients a message reaches when it is sent to `recipients` in order.
Delivered(recipients, fails) ==
    {c \in recipients :
        /\ c \notin fails
        /\ \A d \in recipients : d < c => ~ SendErrorEscapes(d, fails)}

----------------------------------------------------------------------------
(* State after construction *)

NoAdmit == [ip |-> "", allowed |-> TRUE]
NoSend == [kind |-> "none", to |-> {}, frame |-> NoFrame]
NoClose == <<0, 0>>
NoResult == [userId |-> NoId, userName |-> NoName, isReturning |-> FALSE,
             conflictDetected |-> FALSE]

\* VoiceManager's constructor: four empty sets.
NoVoice ==
    [voiceParticipants |-> {}, talkingUsers |-> {}, mutedUsers |-> {},
     noMicUsers |-> {}]

\* VoiceManager.addParticipant without options.
addParticipant(v, userId) ==
    IF userId \notin v.voiceParticipants
    THEN [voice |-> [v EXCEPT !.voiceParticipants = @ \cup {userId}],
          changed |-> TRUE]
    ELSE [voice |-> v, changed |-> FALSE]

\* VoiceManager.removeParticipant.
removeParticipant(v, userId) ==
    IF userId \in v.voiceParticipants
    THEN [voice |-> [voiceParticipants |-> v.voiceParticipants \ {userId},
                     talkingUsers |-> v.talkingUsers \ {userId},
                     mutedUsers |-> v.mutedUsers \ {userId},
                     noMicUsers |-> v.noMicUsers \ {userId}],
          changed |-> TRUE]
    ELSE [voice |-> v, changed |-> FALSE]

\* VoiceManager.handleUserDisconnect.
handleUserDisconnect(v, userId) == removeParticipant(v, userId)

\* VoiceManager.updateTalkingState.
updateTalkingState(v, userId, isTalking) ==
    IF userId \in v.noMicUsers THEN v
    ELSE IF isTalking THEN [v EXCEPT !.talkingUsers = @ \cup {userId}]
    ELSE [v EXCEPT !.talkingUsers = @ \ {userId}]

\* VoiceManager.updateMutedState.
updateMutedState(v, userId, isMuted) ==
    IF isMuted THEN [v EXCEPT !.mutedUsers = @ \cup {userId}]
    ELSE [v EXCEPT !.mutedUsers = @ \ {userId}]

\* One voice message: its type, the userId it names, the flag it carries, the
\* participant list it carries and the connections it was sent to.
VoiceMessage(type, userId, flag, participants, to) ==
    [type |-> type, userId |-> userId, flag |-> flag,
     participants |-> participants, to |-> to]

\* VoiceManager.broadcastParticipantsList.
broadcastParticipantsList(v, open, fails) ==
    VoiceMessage("voiceParticipants", NoId, FALSE, v.voiceParticipants,
                 Delivered(open, fails))

\* ClientManager.getClientUserId.
getClientUserId(clients, ws) ==
    IF ws \in DOMAIN clients THEN clients[ws].userId ELSE NoId

\* The voice part of handleClose: it reads the registry that removeClient
\* has left.
CloseVoice(ws) ==
    LET userId == getClientUserId(connectedClients', ws)
        d == handleUserDisconnect(voice, userId)
        open == OpenClients(connectedClients', wsClosing')
    IN  IF userId # NoId
        THEN /\ voice' = d.voice
             /\ voiceSent' =
                  IF d.changed
                  THEN <<VoiceMessage("voiceLeave", userId, FALSE, {},
                                      Delivered(open, sendFails)),
                         broadcastParticipantsList(d.voice, open, sendFails)>>
                  ELSE << >>
        ELSE /\ voice' = voice
             /\ voiceSent' = << >>

\* The times of the admitted attempts of ip that lie inside the window that
\* ends at t, with t added when the attempt made at t was admitted.
Admit(adm, ip, t, allowed) ==
    LET before == IF ip \in DOMAIN adm THEN adm[ip] ELSE << >>
        recent == SelectSeq(before, LAMBDA time : t - time < RATE_WINDOW)
    IN  MapSet(adm, ip, IF allowed THEN Append(recent, t) ELSE recent)

\* The name the chat handler gives a sender that getUserById does not find.
UnknownUser == <<"Unknown User", 0>>

\* ChatManager.maxMessages.
maxMessages == 100

\* The id of the next chat message. The source builds it from Date.now() and
\* Math.random(); the model numbers the messages in the order of their
\* creation.
NextMessageId(msgs) == IF msgs = << >> THEN 1 ELSE msgs[Len(msgs)].id + 1

\* Variant of addMessage that never trims.
addMessage_NoTrim(msgs, userId, userName, text) ==
    Append(msgs, [id |-> NextMessageId(msgs), userId |-> userId,
                  userName |-> userName, text |-> text])

\* ChatManager.addMessage: the messages array after the call.
addMessage(msgs, userId, userName, text) ==
    LET message == [id |-> NextMessageId(msgs), userId |-> userId,
                    userName |-> userName, text |-> text]
        pushed == Append(msgs, message)
    IN  IF Len(pushed) > maxMessages
        THEN SubSeq(pushed, Len(pushed) - maxMessages + 1, Len(pushed))
        ELSE pushed

\* A step that sends no voice message and leaves the voice sets, the
\* admission history and the chat history alone.
NoVoiceStep ==
    /\ voiceSent' = << >>
    /\ UNCHANGED <<voice, admitted, messages>>

Init ==
    /\ now = TickMs
    /\ nextConn = 1
    /\ connectedClients = EmptyMap
    /\ wsClosing = {}
    /\ ipConnections = EmptyMap
    /\ pending = EmptyMap
    /\ browserToUser = EmptyMap
    /\ fpOrder = << >>
    /\ bindingObj = EmptyMap
    /\ users = EmptyMap
    /\ userStats = EmptyMap
    /\ guestCounter = 1
    /\ mintCounter = 0
    /\ lastAdmit = NoAdmit
    /\ closedWith = NoClose
    /\ broadcasts = << >>
    /\ outbox = NoSend
    /\ sendFails = {}
    /\ voice = NoVoice
    /\ voiceSent = << >>
    /\ admitted = EmptyMap
    /\ messages = << >>
    /\ handler = <<"constructor", 0>>

----------------------------------------------------------------------------
(* WebSocketServer: the handlers *)

\* The sends of broadcastUserList, for a handler that publishes snapshots
\* only: the snapshot goes to every OPEN client.
SendSnapshots ==
    /\ sendFails' = sendFails
    /\ outbox' = IF broadcasts' = << >> THEN NoSend
                 ELSE [kind |-> "userList",
                       to |-> Delivered(OpenClients(connectedClients', wsClosing'),
                                        sendFails),
                       frame |-> NoFrame]

\* ClientManager.updateClientActivity, as far as it reaches the UserManager.
updateClientActivity(um, clients, ws, t) ==
    IF ws \in DOMAIN clients /\ clients[ws].browserFingerprint # NoFp
    THEN updateUserActivity(um, clients[ws].browserFingerprint, t)
    ELSE um

\* handleConnection registering the ws whatever the rate limiter says.
HandleConnection_RegistersAll(ip, limit) ==
    /\ nextConn <= limit
    /\ LET r == shouldAllowConnection(ipConnections, ip, now)
       IN  /\ ipConnections' = r.ipConnections
           /\ lastAdmit' = [ip |-> ip, allowed |-> r.allowed]
           /\ admitted' = Admit(admitted, ip, now, r.allowed)
           /\ connectedClients' = MapSet(connectedClients, nextConn, NewClient(ip))
           /\ closedWith' = IF r.allowed THEN NoClose ELSE <<nextConn, 1008>>
    /\ nextConn' = nextConn + 1
    /\ broadcasts' = << >>
    /\ handler' = <<"handleConnection", nextConn>>
    /\ voiceSent' = << >>
    /\ UNCHANGED <<now, wsClosing, pending, umVars, voice, messages>>
    /\ SendSnapshots

\* handleConnection: a new ws from address ip; `limit` bounds the run.
HandleConnection(ip, limit) ==
    /\ nextConn <= limit
    /\ LET r == shouldAllowConnection(ipConnections, ip, now)
       IN  /\ ipConnections' = r.ipConnections
           /\ lastAdmit' = [ip |-> ip, allowed |-> r.allowed]
           /\ admitted' = Admit(admitted, ip, now, r.allowed)
           /\ connectedClients' = IF r.allowed
                                  THEN MapSet(connectedClients, nextConn, NewClient(ip))
                                  ELSE connectedClients
           /\ closedWith' = IF r.allowed THEN NoClose ELSE <<nextConn, 1008>>
    /\ nextConn' = nextConn + 1
    /\ broadcasts' = << >>
    /\ handler' = <<"handleConnection", nextConn>>
    /\ voiceSent' = << >>
    /\ UNCHANGED <<now, wsClosing, pending, umVars, voice, messages>>
    /\ SendSnapshots

\* handleMessage for an identity message, up to the await in
\* processUserIdentity.
IdentityClaim(ws, browserFingerprint, providedUserId, providedUserName, maxClaims) ==
    /\ ws \in DOMAIN connectedClients
    /\ ws \notin wsClosing
    /\ ws \notin DOMAIN pending
    /\ browserFingerprint # NoFp
    /\ connectedClients[ws].claims < maxClaims
    /\ SetUM(updateClientActivity(UM, connectedClients, ws, now))
    /\ connectedClients' =
         [connectedClients EXCEPT ![ws].browserFingerprint = browserFingerprint,
                                  ![ws].claims = @ + 1]
    /\ pending' = MapSet(pending, ws,
         [phase |-> "location", browserFingerprint |-> browserFingerprint,
          providedUserId |-> providedUserId, providedUserName |-> providedUserName,
          result |-> NoResult])
    /\ lastAdmit' = NoAdmit
    /\ closedWith' = NoClose
    /\ broadcasts' = << >>
    /\ handler' = <<"handleIdentity", ws>>
    /\ UNCHANGED <<now, nextConn, wsClosing, ipConnections>>
    /\ NoVoiceStep
    /\ SendSnapshots

\* handleIdentity up to its await, for at most MaxClaims claims per connection.
IdentityStart(ws, browserFingerprint, providedUserId, providedUserName) ==
    IdentityClaim(ws, browserFingerprint, providedUserId, providedUserName, MaxClaims)

\* processUserIdentity from its await to its return.
ResolveIdentity(ws) ==
    /\ ws \in DOMAIN pending
    /\ pending[ws].phase = "location"
    /\ MintsId(UM, pending[ws].browserFingerprint, pending[ws].providedUserId, now)
         => mintCounter < MaxMint
    /\ LET r == processUserIdentity(UM, pending[ws].browserFingerprint,
                    pending[ws].providedUserId, pending[ws].providedUserName, now)
       IN  /\ SetUM(r.um)
           /\ pending' = [pending EXCEPT ![ws].phase = "result",
                                         ![ws].result = r.result]
    /\ lastAdmit' = NoAdmit
    /\ closedWith' = NoClose
    /\ broadcasts' = << >>
    /\ handler' = <<"processUserIdentity", ws>>
    /\ UNCHANGED <<now, nextConn, connectedClients, wsClosing, ipConnections>>
    /\ NoVoiceStep
    /\ SendSnapshots

\* handleIdentity after the await of processUserIdentity.
IdentityFinish(ws) ==
    /\ ws \in DOMAIN pending
    /\ pending[ws].phase = "result"
    /\ LET userData == pending[ws].result
       IN  IF hasUserExceededConnectionLimit(connectedClients, userData.userId)
           THEN /\ wsClosing' = IF ws \in DOMAIN connectedClients
                                THEN wsClosing \cup {ws} ELSE wsClosing
                /\ closedWith' = <<ws, 1013>>
                /\ broadcasts' = << >>
                /\ UNCHANGED connectedClients
           ELSE /\ connectedClients' =
                     IF ws \in DOMAIN connectedClients
                     THEN [connectedClients EXCEPT ![ws].userId = userData.userId]
                     ELSE connectedClients
                /\ closedWith' = NoClose
                /\ broadcasts' = <<broadcastUserList(UM)>>
                /\ UNCHANGED wsClosing
    /\ pending' = MapDelete(pending, ws)
    /\ lastAdmit' = NoAdmit
    /\ handler' = <<"handleIdentityResult", ws>>
    /\ UNCHANGED <<now, nextConn, ipConnections, umVars>>
    /\ NoVoiceStep
    /\ SendSnapshots

\* A removal that leaves the registry entry in place.
removeClient_Keep(um, clients, ws) ==
    [um |-> um, clients |-> clients, shouldBroadcast |-> TRUE]

\* ClientManager.removeClient: the registry and the manager it leaves, and
\* whether the caller is to broadcast.
removeClient(um, clients, ws) ==
    LET clientData == clients[ws]
        rest == MapDelete(clients, ws)
        browserStillConnected == hasBrowserConnections(rest, clientData.browserFingerprint)
    IN  IF ws \notin DOMAIN clients \/ clientData.browserFingerprint = NoFp
        THEN [um |-> um, clients |-> rest, shouldBroadcast |-> TRUE]
        ELSE IF browserStillConnected
        THEN [um |-> um, clients |-> rest, shouldBroadcast |-> FALSE]
        ELSE [um |-> IF clientData.userId # NoId
                     THEN updateUserStatus(um, clientData.userId, "offline")
                     ELSE um,
              clients |-> rest, shouldBroadcast |-> TRUE]

\* handleClose: the close event of a registered ws.
HandleClose(ws) ==
    /\ ws \in DOMAIN connectedClients
    /\ LET r == removeClient(UM, connectedClients, ws)
       IN  /\ SetUM(r.um)
           /\ connectedClients' = r.clients
           /\ broadcasts' = IF r.shouldBroadcast
                            THEN <<broadcastUserList(r.um)>> ELSE << >>
    /\ wsClosing' = wsClosing \ {ws}
    /\ lastAdmit' = NoAdmit
    /\ closedWith' = NoClose
    /\ handler' = <<"handleClose", ws>>
    /\ UNCHANGED <<now, nextConn, ipConnections, pending, admitted,
                   messages>>
    /\ CloseVoice(ws)
    /\ SendSnapshots

\* handleClose called for a ws that handleClose has removed already.  Every
\* ws accepted so far was registered: no address is blocked.
HandleCloseAgain(ws) ==
    /\ ws \in 1..(nextConn - 1)
    /\ ws \notin DOMAIN connectedClients
    /\ \A ip \in DOMAIN ipConnections : ipConnections[ip].blockedUntil = 0
    /\ LET r == removeClient(UM, connectedClients, ws)
       IN  /\ SetUM(r.um)
           /\ connectedClients' = r.clients
           /\ broadcasts' = IF r.shouldBroadcast
                            THEN <<broadcastUserList(r.um)>> ELSE << >>
    /\ wsClosing' = wsClosing \ {ws}
    /\ lastAdmit' = NoAdmit
    /\ closedWith' = NoClose
    /\ handler' = <<"handleClose", ws>>
    /\ UNCHANGED <<now, nextConn, ipConnections, pending, admitted,
                   messages>>
    /\ CloseVoice(ws)
    /\ SendSnapshots

\* handleMessage for a message that only counts as activity (ping, gameplay).
HandleMessage(ws) ==
    /\ ws \in DOMAIN connectedClients
    /\ ws \notin wsClosing
    /\ SetUM(updateClientActivity(UM, connectedClients, ws, now))
    /\ lastAdmit' = NoAdmit
    /\ closedWith' = NoClose
    /\ broadcasts' = << >>
    /\ handler' = <<"handleMessage", ws>>
    /\ UNCHANGED <<now, nextConn, connectedClients, wsClosing, ipConnections, pending>>
    /\ NoVoiceStep
    /\ SendSnapshots

\* The branches of handleMessage a parsed message can take.
IsIdentityClaim(m) ==
    m.parses /\ m.type = "identity" /\ m.browserFingerprint # NoFp

IsUpdateName(m) ==
    m.parses /\ m.type = "updateName" /\ m.userId # NoId /\ m.userName # NoName

IsUpdatePlayerStat(m) ==
    /\ m.parses
    /\ m.type = "updatePlayerStat"
    /\ m.userId # NoId
    /\ m.stat # ""
    /\ m.value # Undefined

\* No branch takes the message: handleMessage reaches broadcastMessage.
FallsThrough(m) ==
    m.parses /\ ~ IsIdentityClaim(m) /\ ~ IsUpdateName(m) /\ ~ IsUpdatePlayerStat(m)

\* handleMessage for a frame that is no accepted identity claim: a frame
\* JSON.parse rejects, updateName, updatePlayerStat, or one that falls
\* through to the relay.
HandleFrame(ws, m) ==
    /\ ws \in DOMAIN connectedClients
    /\ ws \notin wsClosing
    /\ ~ IsIdentityClaim(m)
    /\ m.type \in {"identity", "updateName", "updatePlayerStat", "custom"}
    /\ LET um0 == updateClientActivity(UM, connectedClients, ws, now)
           open == OpenClients(connectedClients, wsClosing)
       IN  IF IsUpdateName(m)
           THEN LET success == updateUserNameFinds(um0, m.userId)
                    um1 == updateUserName(um0, m.userId, m.userName, now)
                IN  /\ SetUM(um1)
                    /\ broadcasts' = IF success THEN <<broadcastUserList(um1)>>
                                     ELSE << >>
                    /\ outbox' = IF success
                                 THEN [kind |-> "userList",
                                       to |-> Delivered(open, sendFails),
                                       frame |-> NoFrame]
                                 ELSE NoSend
           ELSE IF IsUpdatePlayerStat(m)
           THEN IF validatePlayerStat(m.stat, m.value)
                THEN /\ SetUM(updatePlayerGameStat(um0, m.userId, m.stat, m.value))
                     /\ broadcasts' = << >>
                     /\ outbox' = [kind |-> "updatePlayerStat",
                                   to |-> Delivered(open, sendFails),
                                   frame |-> m]
                ELSE /\ SetUM(um0)
                     /\ broadcasts' = << >>
                     /\ outbox' = NoSend
           ELSE /\ SetUM(um0)
                /\ broadcasts' = << >>
                /\ outbox' = IF FallsThrough(m)
                             THEN [kind |-> "relay",
                                   to |-> Delivered(open \ {ws}, sendFails),
                                   frame |-> m]
                             ELSE NoSend
    /\ lastAdmit' = NoAdmit
    /\ closedWith' = NoClose
    /\ handler' = <<"handleFrame", ws>>
    /\ UNCHANGED <<now, nextConn, connectedClients, wsClosing, ipConnections, pending,
                   sendFails>>
    /\ NoVoiceStep

\* A socket starts or stops throwing on send.
SocketFault(ws) ==
    /\ ws \in DOMAIN connectedClients
    /\ sendFails' = IF ws \in sendFails THEN sendFails \ {ws} ELSE sendFails \cup {ws}
    /\ lastAdmit' = NoAdmit
    /\ closedWith' = NoClose
    /\ broadcasts' = << >>
    /\ outbox' = NoSend
    /\ handler' = <<"socketFault", ws>>
    /\ UNCHANGED <<now, nextConn, connectedClients, wsClosing, ipConnections, pending,
                   umVars>>
    /\ NoVoiceStep

\* handleMessage for a chatMessage frame with a userId and a text.
HandleChatMessage(ws, userId, text, limit) ==
    /\ ws \in DOMAIN connectedClients
    /\ ws \notin wsClosing
    /\ NextMessageId(messages) <= limit
    /\ LET um0 == updateClientActivity(UM, connectedClients, ws, now)
           user == getUserById(um0, userId)
           userName == IF user = NoUser THEN UnknownUser ELSE user.name
           open == OpenClients(connectedClients, wsClosing)
       IN  /\ SetUM(um0)
           /\ messages' = addMessage(messages, userId, userName, text)
           /\ outbox' = [kind |-> "chatMessage",
                         to |-> Delivered(open \ {ws}, sendFails)
                                  \cup ({ws} \ sendFails),
                         frame |-> NoFrame]
    /\ lastAdmit' = NoAdmit
    /\ closedWith' = NoClose
    /\ broadcasts' = << >>
    /\ voiceSent' = << >>
    /\ handler' = <<"chatMessage", ws>>
    /\ UNCHANGED <<now, nextConn, connectedClients, wsClosing, ipConnections, pending,
                   sendFails, voice, admitted>>

\* handleMessage for a voiceJoin frame that names userId.
HandleVoiceJoin(ws, userId) ==
    /\ ws \in DOMAIN connectedClients
    /\ ws \notin wsClosing
    /\ LET um0 == updateClientActivity(UM, connectedClients, ws, now)
           user == getUserById(um0, userId)
           a == addParticipant(voice, userId)
           open == OpenClients(connectedClients, wsClosing)
       IN  /\ SetUM(um0)
           /\ IF user = NoUser
              THEN /\ voice' = voice
                   /\ voiceSent' = << >>
              ELSE /\ voice' = a.voice
                   /\ voiceSent' =
                        IF a.changed
                        THEN <<VoiceMessage("voiceJoin", userId, FALSE, {},
                                            Delivered(open, sendFails)),
                               broadcastParticipantsList(a.voice, open, sendFails)>>
                        ELSE << >>
    /\ lastAdmit' = NoAdmit
    /\ closedWith' = NoClose
    /\ broadcasts' = << >>
    /\ outbox' = NoSend
    /\ handler' = <<"voiceJoin", ws>>
    /\ UNCHANGED <<now, nextConn, connectedClients, wsClosing, ipConnections, pending,
                   sendFails, admitted, messages>>

\* handleMessage for a voiceLeave frame that names userId.
HandleVoiceLeave(ws, userId) ==
    /\ ws \in DOMAIN connectedClients
    /\ ws \notin wsClosing
    /\ LET um0 == updateClientActivity(UM, connectedClients, ws, now)
           d == removeParticipant(voice, userId)
           open == OpenClients(connectedClients, wsClosing)
       IN  /\ SetUM(um0)
           /\ voice' = d.voice
           /\ voiceSent' =
                IF d.changed
                THEN <<VoiceMessage("voiceLeave", userId, FALSE, {},
                                    Delivered(open, sendFails)),
                       broadcastParticipantsList(d.voice, open, sendFails)>>
                ELSE << >>
    /\ lastAdmit' = NoAdmit
    /\ closedWith' = NoClose
    /\ broadcasts' = << >>
    /\ outbox' = NoSend
    /\ handler' = <<"voiceLeave", ws>>
    /\ UNCHANGED <<now, nextConn, connectedClients, wsClosing, ipConnections, pending,
                   sendFails, admitted, messages>>

\* handleMessage for a voiceActivity frame with a boolean isTalking.
HandleVoiceActivity(ws, userId, isTalking) ==
    /\ ws \in DOMAIN connectedClients
    /\ ws \notin wsClosing
    /\ LET um0 == updateClientActivity(UM, connectedClients, ws, now)
           open == OpenClients(connectedClients, wsClosing)
       IN  /\ SetUM(um0)
           /\ IF userId \in voice.voiceParticipants
              THEN /\ voice' = updateTalkingState(voice, userId, isTalking)
                   /\ voiceSent' =
                        <<VoiceMessage("voiceActivity", userId, isTalking, {},
                                       Delivered(open \ {ws}, sendFails))>>
              ELSE /\ voice' = voice
                   /\ voiceSent' = << >>
    /\ lastAdmit' = NoAdmit
    /\ closedWith' = NoClose
    /\ broadcasts' = << >>
    /\ outbox' = NoSend
    /\ handler' = <<"voiceActivity", ws>>
    /\ UNCHANGED <<now, nextConn, connectedClients, wsClosing, ipConnections, pending,
                   sendFails, admitted, messages>>

\* handleMessage for a voiceMute frame with a boolean muted.
HandleVoiceMute(ws, userId, muted) ==
    /\ ws \in DOMAIN connectedClients
    /\ ws \notin wsClosing
    /\ LET um0 == updateClientActivity(UM, connectedClients, ws, now)
           open == OpenClients(connectedClients, wsClosing)
       IN  /\ SetUM(um0)
           /\ IF userId \in voice.voiceParticipants
              THEN /\ voice' = updateMutedState(voice, userId, muted)
                   /\ voiceSent' =
                        <<VoiceMessage("voiceMute", userId, muted, {},
                                       Delivered(open, sendFails))>>
              ELSE /\ voice' = voice
                   /\ voiceSent' = << >>
    /\ lastAdmit' = NoAdmit
    /\ closedWith' = NoClose
    /\ broadcasts' = << >>
    /\ outbox' = NoSend
    /\ handler' = <<"voiceMute", ws>>
    /\ UNCHANGED <<now, nextConn, connectedClients, wsClosing, ipConnections, pending,
                   sendFails, admitted, messages>>

\* handleMessage for getUsers.
HandleGetUsers(ws) ==
    /\ ws \in DOMAIN connectedClients
    /\ ws \notin wsClosing
    /\ LET um == updateClientActivity(UM, connectedClients, ws, now)
       IN  /\ SetUM(um)
           /\ broadcasts' = <<broadcastUserList(um)>>
    /\ lastAdmit' = NoAdmit
    /\ closedWith' = NoClose
    /\ handler' = <<"getUsers", ws>>
    /\ UNCHANGED <<now, nextConn, connectedClients, wsClosing, ipConnections, pending>>
    /\ NoVoiceStep
    /\ SendSnapshots

\* The hourly cleanup interval of setupIntervals.
CleanupInterval ==
    /\ LET r == pruneInactiveBrowsers(UM, connectedClients, now)
       IN  /\ SetUM(r.um)
           /\ broadcasts' = IF r.pruned > 0
                            THEN <<broadcastUserList(r.um)>> ELSE << >>
    /\ lastAdmit' = NoAdmit
    /\ closedWith' = NoClose
    /\ handler' = <<"cleanup", 0>>
    /\ UNCHANGED <<now, nextConn, connectedClients, wsClosing, ipConnections, pending>>
    /\ NoVoiceStep
    /\ SendSnapshots

\* Time passes.
Tick(step, last) ==
    /\ now + step <= last
    /\ now' = now + step
    /\ handler' = <<"tick", 0>>
    /\ UNCHANGED <<nextConn, connectedClients, wsClosing, ipConnections, pending,
                   umVars, lastAdmit, closedWith, broadcasts, outbox, sendFails,
                   voice, voiceSent, admitted, messages>>

----------------------------------------------------------------------------
(* The server *)

Conns == 1..MaxConns
Fingerprints == {FpA, FpATs, FpB}
ProvidedIds == {NoId, ClientId1}
ProvidedNames == {NoName, GivenName(1)}

Next ==
    \/ HandleConnection(Ip1, MaxConns)
    \/ \E ws \in Conns, fp \in Fingerprints, id \in ProvidedIds, name \in ProvidedNames :
           IdentityStart(ws, fp, id, name)
    \/ \E ws \in Conns : ResolveIdentity(ws)
    \/ \E ws \in Conns : IdentityFinish(ws)
    \/ \E ws \in Conns : HandleClose(ws)
    \/ \E ws \in Conns : HandleMessage(ws)
    \/ \E ws \in Conns : HandleGetUsers(ws)
    \/ CleanupInterval
    \/ Tick(TickMs, (MaxTicks + 1) * TickMs)

Spec == Init /\ [][Next]_vars

----------------------------------------------------------------------------
(* Concurrent claims of one browser: every connection presents a raw form  *)
(* of the same normalized fingerprint, with or without the timestamp.      *)

NextClaim ==
    \/ HandleConnection(Ip1, MaxConns)
    \/ \E ws \in Conns, fp \in {FpA, FpATs}, id \in ProvidedIds, name \in ProvidedNames :
           IdentityStart(ws, fp, id, name)
    \/ \E ws \in Conns : ResolveIdentity(ws)
    \/ \E ws \in Conns : IdentityFinish(ws)
    \/ \E ws \in Conns : HandleClose(ws)
    \/ \E ws \in Conns : HandleMessage(ws)

SpecClaim == Init /\ [][NextClaim]_vars

----------------------------------------------------------------------------
(* The connection cap: one browser opens connection after connection, each *)
(* claiming the same identity.                                            *)

CapConns == 1..(MAX_CONNECTIONS_PER_USER + CapExtra)

NextCap ==
    \/ HandleConnection(Ip1, MAX_CONNECTIONS_PER_USER + CapExtra)
    \/ \E ws \in CapConns :
           /\ Cardinality(DOMAIN pending) < CapInFlight
           /\ IdentityStart(ws, FpA, ClientId1, NoName)
    \/ \E ws \in CapConns : ResolveIdentity(ws)
    \/ \E ws \in CapConns : IdentityFinish(ws)
    \/ \E ws \in CapConns : HandleClose(ws)

SpecCap == Init /\ [][NextCap]_vars

\* The close event of a ws the server has called close() on: the ws library
\* emits it once the closing handshake ends or times out.
CloseEvent(ws) ==
    /\ ws \in wsClosing
    /\ HandleClose(ws)

SpecCapFair == SpecCap /\ \A ws \in CapConns : WF_vars(CloseEvent(ws))

----------------------------------------------------------------------------
(* The rate limiter alone: connection attempts of two addresses.  An       *)
(* attempt is handleConnection up to its admission decision.               *)

ConnectionAttempt(ip) ==
    /\ LET r == shouldAllowConnection(ipConnections, ip, now)
       IN  /\ ipConnections' = r.ipConnections
           /\ lastAdmit' = [ip |-> ip, allowed |-> r.allowed]
           /\ admitted' = Admit(admitted, ip, now, r.allowed)
    /\ handler' = <<"handleConnection", 0>>
    /\ UNCHANGED <<now, nextConn, connectedClients, wsClosing, pending, umVars,
                   closedWith, broadcasts, outbox, sendFails, voice,
                   voiceSent, messages>>

NextRate ==
    \/ ConnectionAttempt(Ip1)
    \/ Tick(RateTickMs, TickMs + RateTicks * RateTickMs)

SpecRate == Init /\ [][NextRate]_vars

\* Two addresses, on a coarser clock.
NextRatePair ==
    \/ \E ip \in {Ip1, Ip2} : ConnectionAttempt(ip)
    \/ Tick(PairTickMs, TickMs + PairTicks * PairTickMs)

SpecRatePair == Init /\ [][NextRatePair]_vars

----------------------------------------------------------------------------
(* The presence snapshot at its cap: player after player joins, each from  *)
(* its own address with its own fingerprint and its own userId.            *)

SnapConns == 1..(MAX_USERS_TO_BROADCAST + SnapExtra)
FpN(n) == [i \in 1..n |-> "x"]
ClientId(n) == <<"client", n>>
IpOf(n) == "10.0.1." \o ToString(n)

NextSnap ==
    \/ /\ \A ws \in DOMAIN connectedClients : connectedClients[ws].userId # NoId
       /\ HandleConnection(IpOf(nextConn), MAX_USERS_TO_BROADCAST + SnapExtra)
    \/ \E ws \in SnapConns :
           /\ ws \in DOMAIN connectedClients
           /\ connectedClients[ws].userId = NoId
           /\ IdentityStart(ws, FpN(ws), ClientId(ws), NoName)
    \/ \E ws \in SnapConns : ResolveIdentity(ws)
    \/ \E ws \in SnapConns : IdentityFinish(ws)

SpecSnap == Init /\ [][NextSnap]_vars

----------------------------------------------------------------------------
(* Messages other than identity claims: two connections of one player, who  *)
(* claims with or without a name, renames, and sends frames the server      *)
(* cannot parse or that lack a field.                                       *)

MsgFrames ==
    {NoFrame,
     Frame("identity", NoFp, ClientId1, GivenName(2), "", Undefined),
     Frame("updateName", NoFp, ClientId1, NoName, "", Undefined),
     Frame("updateName", NoFp, NoId, GivenName(2), "", Undefined),
     Frame("updateName", NoFp, ClientId1, GivenName(2), "", Undefined),
     Frame("updateName", NoFp, ClientId(2), GivenName(2), "", Undefined),
     Frame("custom", NoFp, ClientId1, NoName, "", Undefined)}

NextMsg ==
    \/ HandleConnection(Ip1, MaxConns)
    \/ \E ws \in Conns, fp \in {FpA, FpB}, name \in ProvidedNames :
           IdentityStart(ws, fp, ClientId1, name)
    \/ \E ws \in Conns : ResolveIdentity(ws)
    \/ \E ws \in Conns : IdentityFinish(ws)
    \/ \E ws \in Conns : HandleClose(ws)
    \/ \E ws \in Conns, m \in MsgFrames : HandleFrame(ws, m)
    \/ CleanupInterval
    \/ Tick(TickMs, (MaxTicks + 1) * TickMs)

SpecMsg == Init /\ [][NextMsg]_vars

----------------------------------------------------------------------------
(* Statistic updates: the connections of one player send updatePlayerStat   *)
(* messages with names and values of every kind.                           *)

StatFrame(userId, stat, value) ==
    Frame("updatePlayerStat", NoFp, userId, NoName, stat, value)

StatFrames ==
    {StatFrame(ClientId1, "level", Num(<<"5">>)),
     StatFrame(ClientId1, "level", Str(<<"5">>)),
     StatFrame(ClientId1, "level", Null),
     StatFrame(ClientId1, "level", Undefined),
     StatFrame(ClientId1, "weapon", Str(<<"A", "x", "e">>)),
     StatFrame(ClientId1, "weapon", Num(<<"5">>)),
     StatFrame(ClientId1, "timePlayed", Str(<<"1", "d", " ", "2", "h">>)),
     StatFrame(ClientId1, "timePlayed", Str(<<"1", "d", "2", "h">>)),
     StatFrame(ClientId1, "deliveriesMade", Num(<<"3">>)),
     StatFrame(ClientId1, "speed", Num(<<"5">>)),
     StatFrame(ClientId1, "", Num(<<"5">>)),
     StatFrame(ClientId(2), "level", Num(<<"5">>))}

NextStat ==
    \/ HandleConnection(Ip1, MaxConns)
    \/ \E ws \in Conns : IdentityStart(ws, FpA, ClientId1, NoName)
    \/ \E ws \in Conns : ResolveIdentity(ws)
    \/ \E ws \in Conns : IdentityFinish(ws)
    \/ \E ws \in Conns : HandleClose(ws)
    \/ \E ws \in Conns, m \in StatFrames : HandleFrame(ws, m)

SpecStat == Init /\ [][NextStat]_vars

----------------------------------------------------------------------------
(* Presence broadcasts while sockets fail: the connections of one player,   *)
(* any of which may throw on send.                                          *)

NextSend ==
    \/ HandleConnection(Ip1, SendConns)
    \/ \E ws \in 1..SendConns : IdentityStart(ws, FpA, ClientId1, NoName)
    \/ \E ws \in 1..SendConns : ResolveIdentity(ws)
    \/ \E ws \in 1..SendConns : IdentityFinish(ws)
    \/ \E ws \in 1..SendConns : HandleClose(ws)
    \/ \E ws \in 1..SendConns : HandleGetUsers(ws)
    \/ \E ws \in 1..SendConns : SocketFault(ws)

SpecSend == Init /\ [][NextSend]_vars

----------------------------------------------------------------------------
(* Teardown processed again: handleClose is called once more for a          *)
(* connection it has removed.                                               *)

NextTeardown ==
    \/ HandleConnection(Ip1, MaxConns)
    \/ \E ws \in Conns, fp \in {FpA, FpB} : IdentityStart(ws, fp, ClientId1, NoName)
    \/ \E ws \in Conns : ResolveIdentity(ws)
    \/ \E ws \in Conns : IdentityFinish(ws)
    \/ \E ws \in Conns : HandleClose(ws)
    \/ \E ws \in Conns : HandleCloseAgain(ws)

SpecTeardown == Init /\ [][NextTeardown]_vars

----------------------------------------------------------------------------
(* The rate limiter in front of the registry: one address connects again    *)
(* and again, and the connections send messages.                            *)

GateConns == 1..(RATE_MAX_ATTEMPTS + GateExtra)

NextGate ==
    \/ HandleConnection(Ip1, RATE_MAX_ATTEMPTS + GateExtra)
    \/ \E ws \in GateConns : HandleMessage(ws)
    \/ Tick(PairTickMs, TickMs + GateTicks * PairTickMs)

SpecGate == Init /\ [][NextGate]_vars

----------------------------------------------------------------------------
(* Properties *)

\* The step is processUserIdentity resuming for the claim pending on ws.
Resolves(ws) ==
    /\ ws \in DOMAIN pending
    /\ pending[ws].phase = "location"
    /\ handler' = <<"processUserIdentity", ws>>
    /\ ws \in DOMAIN pending'
    /\ pending'[ws].phase = "result"

\* The stable fingerprints bound to userId that a connection identified as
\* userId carries.
LiveFingerprints(clients, bindings, userId) ==
    {fp \in DOMAIN bindings :
        /\ bindings[fp] = userId
        /\ \E ws \in DOMAIN clients :
               /\ clients[ws].userId = userId
               /\ getStableFingerprint(clients[ws].browserFingerprint) = fp}

BoundConnections(clients, userId) ==
    {ws \in DOMAIN clients : clients[ws].userId = userId}

\* C1 (as claimed): a player with live connections under two different
\* fingerprints stays Online when a connection closes or the Reaper sweeps,
\* as long as one of the player's fingerprints still has a live connection.
C1_StaysOnlineWhileConnected ==
    [][\A userId \in DOMAIN users :
         ( /\ pending = EmptyMap
           /\ Cardinality(LiveFingerprints(connectedClients, browserToUser, userId)) >= 2
           /\ users[userId].status = "online"
           /\ handler'[1] \in {"handleClose", "cleanup"}
           /\ LiveFingerprints(connectedClients', browserToUser', userId) # {} )
         => users'[userId].status = "online"]_vars

\* C2 (as claimed): when 5 connections are bound to a playerId, the identity
\* handler closes a further connection that resolves to it and does not bind it.
C2_SixthConnectionClosed ==
    [][\A ws \in DOMAIN pending :
         ( /\ pending[ws].phase = "result"
           /\ handler' = <<"handleIdentityResult", ws>>
           /\ ws \in DOMAIN connectedClients
           /\ Cardinality(BoundConnections(connectedClients, pending[ws].result.userId)
                          \ {ws}) = MAX_CONNECTIONS_PER_USER )
         => /\ closedWith' = <<ws, 1013>>
            /\ connectedClients'[ws].userId # pending[ws].result.userId
            /\ Cardinality(BoundConnections(connectedClients', pending[ws].result.userId))
                 <= MAX_CONNECTIONS_PER_USER]_vars

\* C3: resolving a fingerprint whose normalized form is already bound, without
\* a name change, returns the bound playerId as a returning player and adds
\* neither an identity nor a binding.
C3_IdempotentResolution ==
    [][\A ws \in DOMAIN pending :
         LET stable == getStableFingerprint(pending[ws].browserFingerprint)
         IN  ( /\ Resolves(ws)
               /\ stable \in DOMAIN browserToUser
               /\ \/ pending[ws].providedUserName = NoName
                  \/ pending[ws].providedUserName
                       = bindingObj[browserToUser[stable]].userName )
             => /\ pending'[ws].result.userId = browserToUser[stable]
                /\ pending'[ws].result.isReturning
                /\ browserToUser' = browserToUser
                /\ fpOrder' = fpOrder
                /\ DOMAIN users' = DOMAIN users]_vars

\* C3 witness: a claim resolved as returning while another connection, which
\* presented another raw form of the fingerprint, holds the same playerId.
C3_Witness ==
    \E ws \in DOMAIN pending, other \in DOMAIN connectedClients :
        /\ handler = <<"processUserIdentity", ws>>
        /\ pending[ws].result.isReturning
        /\ other # ws
        /\ connectedClients[other].userId = pending[ws].result.userId
        /\ connectedClients[other].browserFingerprint # pending[ws].browserFingerprint
        /\ getStableFingerprint(connectedClients[other].browserFingerprint)
             = getStableFingerprint(pending[ws].browserFingerprint)
        /\ Cardinality(DOMAIN users) = 1
        /\ Cardinality(DOMAIN browserToUser) = 1

\* C4: however the identity claims of connections presenting one normalized
\* fingerprint interleave, there is one identity and one binding, every
\* resolution returns its playerId, and every connection whose claim has been
\* handled is bound to it.
C4_OneIdentityPerFingerprint ==
    /\ Cardinality(DOMAIN users) <= 1
    /\ Cardinality(DOMAIN browserToUser) <= 1
    /\ \A ws \in DOMAIN pending :
         pending[ws].phase = "result"
           => /\ FpA \in DOMAIN browserToUser
              /\ pending[ws].result.userId = browserToUser[FpA]
    /\ \A ws \in DOMAIN connectedClients :
         /\ connectedClients[ws].userId # NoId
              => /\ FpA \in DOMAIN browserToUser
                 /\ connectedClients[ws].userId = browserToUser[FpA]
         /\ ( /\ connectedClients[ws].claims > 0
              /\ ws \notin DOMAIN pending
              /\ ws \notin wsClosing )
              => connectedClients[ws].userId # NoId

\* C4 witness: two claims in flight at once, both resolved to one playerId,
\* one as the new player and one as returning.
C4_Witness ==
    \E a \in DOMAIN pending, b \in DOMAIN pending :
        /\ a # b
        /\ pending[a].phase = "result"
        /\ pending[b].phase = "result"
        /\ pending[a].browserFingerprint # pending[b].browserFingerprint
        /\ ~ pending[a].result.isReturning
        /\ pending[b].result.isReturning
        /\ pending[a].result.userId = pending[b].result.userId

\* C5: a claim from an unbound fingerprint whose userId some binding carries
\* returns that playerId as returning, binds the fingerprint to it and
\* creates no identity.
C5_FingerprintDrift ==
    [][\A ws \in DOMAIN pending :
         LET stable == getStableFingerprint(pending[ws].browserFingerprint)
             claimed == pending[ws].providedUserId
         IN  ( /\ Resolves(ws)
               /\ stable \notin DOMAIN browserToUser
               /\ claimed # NoId
               /\ \E fp \in DOMAIN browserToUser : browserToUser[fp] = claimed )
             => /\ pending'[ws].result.userId = claimed
                /\ pending'[ws].result.isReturning
                /\ DOMAIN browserToUser' = DOMAIN browserToUser \cup {stable}
                /\ browserToUser'[stable] = claimed
                /\ \A fp \in DOMAIN browserToUser : browserToUser'[fp] = browserToUser[fp]
                /\ DOMAIN users' = DOMAIN users
                /\ DOMAIN bindingObj' = DOMAIN bindingObj]_vars

\* C5 witness: the claim just resolved as returning, and two fingerprints are
\* bound to its playerId.
C5_Witness ==
    \E ws \in DOMAIN pending :
        /\ handler = <<"processUserIdentity", ws>>
        /\ pending[ws].result.isReturning
        /\ pending[ws].result.userId = pending[ws].providedUserId
        /\ Cardinality({fp \in DOMAIN browserToUser :
                          browserToUser[fp] = pending[ws].result.userId}) = 2
        /\ Cardinality(DOMAIN users) = 1

SnapshotIds(snapshot) == {snapshot.users[k].id : k \in DOMAIN snapshot.users}

\* C6: a presence snapshot has one entry per playerId.
C6_SnapshotDedup ==
    \A i \in DOMAIN broadcasts :
        Cardinality(SnapshotIds(broadcasts[i])) = Len(broadcasts[i].users)

\* C6 witness: a snapshot with one entry, published while two bindings and
\* two live connections reference its playerId.
C6_Witness ==
    /\ Len(broadcasts) = 1
    /\ Len(broadcasts[1].users) = 1
    /\ Cardinality(DOMAIN browserToUser) = 2
    /\ Cardinality(BoundConnections(connectedClients, broadcasts[1].users[1].id)) = 2

\* C7 (as claimed): a claim from an unbound fingerprint whose userId is
\* carried by a binding active within the last 7 days is refused: the result
\* is a newly minted id and reports the conflict.
C7_ActiveConflictRejected ==
    [][\A ws \in DOMAIN pending :
         LET stable == getStableFingerprint(pending[ws].browserFingerprint)
             claimed == pending[ws].providedUserId
         IN  ( /\ Resolves(ws)
               /\ stable \notin DOMAIN browserToUser
               /\ claimed # NoId
               /\ \E fp \in DOMAIN browserToUser :
                      /\ browserToUser[fp] = claimed
                      /\ now - LastSeen(bindingObj[claimed]) < MAX_INACTIVE_TIME )
             => /\ pending'[ws].result.userId # claimed
                /\ pending'[ws].result.conflictDetected]_vars

\* The registered connections whose raw fingerprint carries a timestamp
\* suffix and whose stripped fingerprint is bound.
Suffixed(ws) ==
    /\ ws \in DOMAIN connectedClients
    /\ connectedClients[ws].browserFingerprint # NoFp
    /\ TimestampPatternTest(connectedClients[ws].browserFingerprint)
    /\ getStableFingerprint(connectedClients[ws].browserFingerprint)
         \in DOMAIN browserToUser

BindingOf(ws) ==
    browserToUser[getStableFingerprint(connectedClients[ws].browserFingerprint)]

\* Every fingerprint bound to the player of ws is the stripped fingerprint of
\* some registered connection.
AllFingerprintsLive(ws) ==
    \A fp \in DOMAIN browserToUser :
        browserToUser[fp] = BindingOf(ws)
          => \E c \in DOMAIN connectedClients :
                 getStableFingerprint(connectedClients[c].browserFingerprint) = fp

\* C8 (as claimed), the Reaper's liveness check: a sweep keeps the binding of
\* a connection with a suffixed fingerprint, and its status.
C8_ReaperUsesNormalizedForm ==
    [][\A ws \in DOMAIN connectedClients :
         ( /\ Suffixed(ws)
           /\ AllFingerprintsLive(ws)
           /\ handler'[1] = "cleanup" )
         => /\ getStableFingerprint(connectedClients[ws].browserFingerprint)
                 \in DOMAIN browserToUser'
            /\ bindingObj'[BindingOf(ws)].status = bindingObj[BindingOf(ws)].status]_vars

\* C8 (as claimed), the activity update: a message of a connection with a
\* suffixed fingerprint refreshes the lastActivity of its binding.
C8_ActivityUsesNormalizedForm ==
    [][\A ws \in DOMAIN connectedClients :
         ( /\ Suffixed(ws)
           /\ handler' = <<"handleMessage", ws>> )
         => bindingObj'[BindingOf(ws)].lastActivity = now]_vars

\* C8 (as claimed), the sibling check: while a connection with a suffixed
\* fingerprint is registered, the removal of another connection of the same
\* stripped fingerprint leaves the status of their binding alone.
C8_RemovalUsesNormalizedForm ==
    [][\A ws \in DOMAIN connectedClients, other \in DOMAIN connectedClients :
         ( /\ Suffixed(ws)
           /\ other # ws
           /\ getStableFingerprint(connectedClients[other].browserFingerprint)
                = getStableFingerprint(connectedClients[ws].browserFingerprint)
           /\ handler' = <<"handleClose", other>> )
         => bindingObj'[BindingOf(ws)].status = bindingObj[BindingOf(ws)].status]_vars

\* C8 (as claimed): a connection with a suffixed fingerprint counts as a live
\* connection of the binding under the stripped fingerprint: the Reaper keeps
\* that binding and its status, a message of the connection refreshes the
\* binding's lastActivity, and the removal of a sibling connection of the
\* same browser leaves the status alone.
C8_LookupsUseNormalizedForm ==
    [][\A ws \in DOMAIN connectedClients :
         Suffixed(ws) =>
           /\ ( /\ AllFingerprintsLive(ws)
                /\ handler'[1] = "cleanup" )
                => /\ getStableFingerprint(connectedClients[ws].browserFingerprint)
                        \in DOMAIN browserToUser'
                   /\ bindingObj'[BindingOf(ws)].status = bindingObj[BindingOf(ws)].status
           /\ handler' = <<"handleMessage", ws>>
                => bindingObj'[BindingOf(ws)].lastActivity = now
           /\ \A other \in DOMAIN connectedClients :
                ( /\ other # ws
                  /\ getStableFingerprint(connectedClients[other].browserFingerprint)
                       = getStableFingerprint(connectedClients[ws].browserFingerprint)
                  /\ handler' = <<"handleClose", other>> )
                => bindingObj'[BindingOf(ws)].status
                     = bindingObj[BindingOf(ws)].status]_vars

\* The step is a connection attempt from address ip.
Attempts(ip) ==
    /\ handler'[1] = "handleConnection"
    /\ lastAdmit'.ip = ip

\* The recorded attempts of ip that lie less than 60 seconds before now.
RecentAttempts(ip) ==
    LET recorded == IpData(ipConnections, ip).connectionAttempts
    IN  Cardinality({i \in DOMAIN recorded : now - recorded[i] < 60000})

\* C9: an attempt from an address that is not blocked is admitted when fewer
\* than 20 attempts lie in the last 60 seconds; with 20 there it is rejected
\* and blocks the address for 120 seconds; an attempt during the block is
\* rejected; the first attempt after the block has elapsed is admitted.
C9_RateLimit ==
    [][\A ip \in {Ip1, Ip2} :
         LET ipData == IpData(ipConnections, ip)
             blocked == ipData.blockedUntil > now
         IN  Attempts(ip) =>
               /\ (~ blocked /\ RecentAttempts(ip) < 20) => lastAdmit'.allowed
               /\ (~ blocked /\ RecentAttempts(ip) >= 20)
                    => /\ ~ lastAdmit'.allowed
                       /\ ipConnections'[ip].blockedUntil = now + 120000
               /\ blocked => ~ lastAdmit'.allowed
               /\ ( /\ ipData.blockedUntil # 0
                    /\ now >= ipData.blockedUntil
                    /\ \A i \in DOMAIN ipData.connectionAttempts :
                           ipData.connectionAttempts[i] < ipData.blockedUntil )
                    => lastAdmit'.allowed]_vars

\* C9 witness: the address was blocked, the block has elapsed, and the
\* attempt just made, the first since, was admitted.
C9_Witness ==
    /\ handler[1] = "handleConnection"
    /\ lastAdmit = [ip |-> Ip1, allowed |-> TRUE]
    /\ Ip1 \in DOMAIN ipConnections
    /\ ipConnections[Ip1].blockedUntil # 0
    /\ now >= ipConnections[Ip1].blockedUntil
    /\ ipConnections[Ip1].connectionAttempts = <<now>>

\* C10: an attempt from a blocked address is rejected and changes neither the
\* attempts and the block expiry recorded for that address nor anything
\* recorded for another address.
C10_BlockedAttemptLeavesNoTrace ==
    [][\A ip \in {Ip1, Ip2} :
         ( /\ Attempts(ip)
           /\ IpData(ipConnections, ip).blockedUntil > now )
         => /\ ~ lastAdmit'.allowed
            /\ ipConnections' = ipConnections]_vars

\* C10 witness: an attempt was just rejected at a time after the one that
\* set the block, while the other address has attempts on record.
C10_Witness ==
    /\ handler[1] = "handleConnection"
    /\ lastAdmit = [ip |-> Ip1, allowed |-> FALSE]
    /\ Ip1 \in DOMAIN ipConnections
    /\ ipConnections[Ip1].blockedUntil > now
    /\ ipConnections[Ip1].blockedUntil < now + 120000
    /\ Ip2 \in DOMAIN ipConnections
    /\ ipConnections[Ip2].connectionAttempts # << >>

\* The status each store holds for every identity.
UsersStatus == [u \in DOMAIN users |-> users[u].status]
BindingStatus == [u \in DOMAIN bindingObj |-> bindingObj[u].status]
StatsStatus == [u \in DOMAIN userStats |-> userStats[u].status]

\* Another registered connection carries the fingerprint recorded for ws.
SharesFingerprint(ws) ==
    \E other \in DOMAIN connectedClients :
        /\ other # ws
        /\ connectedClients[other].browserFingerprint
             = connectedClients[ws].browserFingerprint

\* The entries of a snapshot that show userId with the given status.
EntriesOf(snapshot, userId, status) ==
    {k \in DOMAIN snapshot.users :
        /\ snapshot.users[k].id = userId
        /\ snapshot.users[k].status = status}

\* C11: when an identified connection is removed and another registered
\* connection carries the fingerprint recorded for it, no status changes and
\* nothing is published; when none does, the identity is offline afterwards
\* in every store and one snapshot is published.
C11_RemovalPublish ==
    [][\A ws \in DOMAIN connectedClients :
         ( /\ handler' = <<"handleClose", ws>>
           /\ connectedClients[ws].userId # NoId )
         => IF SharesFingerprint(ws)
            THEN /\ broadcasts' = << >>
                 /\ UsersStatus' = UsersStatus
                 /\ BindingStatus' = BindingStatus
                 /\ StatsStatus' = StatsStatus
            ELSE LET userId == connectedClients[ws].userId
                 IN  /\ Len(broadcasts') = 1
                     /\ userId \in DOMAIN users'
                          => users'[userId].status = "offline"
                     /\ userId \in DOMAIN bindingObj'
                          => bindingObj'[userId].status = "offline"
                     /\ EntriesOf(broadcasts'[1], userId, "online") = {}]_vars

\* C11 witness: a connection was just removed without a publish while an
\* identified connection of the same fingerprint stays, its player online.
C11_Witness ==
    /\ handler[1] = "handleClose"
    /\ broadcasts = << >>
    /\ \E ws \in DOMAIN connectedClients :
           /\ connectedClients[ws].userId # NoId
           /\ connectedClients[ws].userId \in DOMAIN users
           /\ users[connectedClients[ws].userId].status = "online"

\* ws is the only registered connection of its stripped fingerprint, and is
\* bound to the player that fingerprint is bound to.
LastOfFingerprint(ws) ==
    LET stable == getStableFingerprint(connectedClients[ws].browserFingerprint)
    IN  /\ connectedClients[ws].userId # NoId
        /\ stable \in DOMAIN browserToUser
        /\ browserToUser[stable] = connectedClients[ws].userId
        /\ \A other \in DOMAIN connectedClients :
               other # ws =>
                 getStableFingerprint(connectedClients[other].browserFingerprint)
                   # stable

\* C12: the snapshot published when the last connection bound to a
\* fingerprint closes shows the player offline; a later claim of that
\* fingerprint resolves to the same playerId and sets it online, and the
\* snapshot published when the claim completes shows the player online.
C12_StatusDerivation ==
    [][/\ \A ws \in DOMAIN connectedClients :
            ( /\ LastOfFingerprint(ws)
              /\ handler' = <<"handleClose", ws>> )
            => LET userId == connectedClients[ws].userId
               IN  /\ Len(broadcasts') = 1
                   /\ EntriesOf(broadcasts'[1], userId, "offline") # {}
                   /\ EntriesOf(broadcasts'[1], userId, "online") = {}
       /\ \A ws \in DOMAIN pending :
            LET stable == getStableFingerprint(pending[ws].browserFingerprint)
            IN  ( /\ Resolves(ws)
                  /\ stable \in DOMAIN browserToUser
                  /\ bindingObj[browserToUser[stable]].status = "offline" )
                => /\ pending'[ws].result.userId = browserToUser[stable]
                   /\ bindingObj'[browserToUser[stable]].status = "online"
       /\ \A ws \in DOMAIN pending :
            ( /\ handler = <<"processUserIdentity", ws>>
              /\ handler' = <<"handleIdentityResult", ws>>
              /\ pending[ws].result.isReturning
              /\ closedWith' = NoClose )
            => /\ Len(broadcasts') = 1
               /\ EntriesOf(broadcasts'[1], pending[ws].result.userId, "online") # {}
               /\ EntriesOf(broadcasts'[1], pending[ws].result.userId, "offline") = {}
      ]_vars

\* C12 witness: the first connection has closed, the second one has claimed
\* the fingerprint as a returning player, and the snapshot just published
\* shows that player online.
C12_Witness ==
    /\ handler[1] = "handleIdentityResult"
    /\ nextConn = 3
    /\ DOMAIN connectedClients = {2}
    /\ connectedClients[2].userId # NoId
    /\ Cardinality(DOMAIN browserToUser) = 1
    /\ userStats # EmptyMap
    /\ Len(broadcasts) = 1
    /\ EntriesOf(broadcasts[1], connectedClients[2].userId, "online") # {}
    /\ \E fp \in DOMAIN browserToUser :
           /\ browserToUser[fp] = connectedClients[2].userId
           /\ bindingObj[browserToUser[fp]].firstSeen < now

\* The distinct playerIds the bindings refer to.
KnownPlayers == {browserToUser[fp] : fp \in DOMAIN browserToUser}

\* C13 (as claimed): with more distinct playerIds than the cap the snapshot
\* is the truncation envelope, with cap entries and the true total; otherwise
\* it is the plain list of all players.
C13_TruncationEnvelope ==
    \A i \in DOMAIN broadcasts :
        IF Cardinality(KnownPlayers) > 100
        THEN /\ broadcasts[i].type = "userListTruncated"
             /\ Len(broadcasts[i].users) = 100
             /\ broadcasts[i].total = Cardinality(KnownPlayers)
        ELSE /\ broadcasts[i].type = "userList"
             /\ Len(broadcasts[i].users) = Cardinality(KnownPlayers)

\* C14 (as claimed): the handler that resolved an identity claim publishes
\* one snapshot when it completes, also when it closes the connection for
\* exceeding the connection cap.
C14_ResolutionPublishesOnce ==
    [][\A ws \in DOMAIN pending :
         ( /\ pending[ws].phase = "result"
           /\ handler' = <<"handleIdentityResult", ws>> )
         => Len(broadcasts') = 1]_vars

\* The status a snapshot shows for some player changes in the step.
StatusChanges ==
    \E u \in DOMAIN bindingObj :
        /\ u \in DOMAIN bindingObj'
        /\ bindingObj'[u].status # bindingObj[u].status

\* C15 (as claimed), the per-message activity update: a message that changes
\* a status publishes one snapshot.
C15_ActivityStatusPublished ==
    [][(handler'[1] = "handleMessage" /\ StatusChanges)
         => Len(broadcasts') = 1]_vars

\* C15 (as claimed): a disconnect, a message or a Reaper sweep that changes
\* the status of a player publishes one snapshot in the same handler.
C15_StatusChangePublished ==
    [][( /\ handler'[1] \in {"handleClose", "handleMessage", "cleanup"}
         /\ StatusChanges )
         => Len(broadcasts') = 1]_vars

\* The sweep turns a player that a snapshot showed online to offline.
FlipsOffline ==
    \E u \in DOMAIN bindingObj :
        /\ bindingObj[u].status = "online"
        /\ u \in DOMAIN bindingObj' => bindingObj'[u].status = "offline"
        /\ \E fp \in DOMAIN browserToUser :
               /\ browserToUser[fp] = u
               /\ ~ hasBrowserConnections(connectedClients, fp)

\* The sweep evicts a binding.
Evicts == DOMAIN browserToUser' # DOMAIN browserToUser

\* C16 (as claimed): a Reaper sweep that turns a player from online to
\* offline publishes a snapshot, also when it evicts no binding.
C16_SweepFlipPublished ==
    [][(handler'[1] = "cleanup" /\ FlipsOffline) => Len(broadcasts') = 1]_vars

EvictedPlayers ==
    {browserToUser[fp] : fp \in DOMAIN browserToUser \ DOMAIN browserToUser'}

StillBound(u) == \E fp \in DOMAIN browserToUser' : browserToUser'[fp] = u

\* C18 (as claimed), first half: the statistics and the identity of an
\* evicted binding's player are kept while another binding refers to the
\* player.
C18_KeptWhileReferenced ==
    [][handler'[1] = "cleanup" =>
         \A u \in EvictedPlayers :
             StillBound(u) =>
               /\ u \in DOMAIN users => u \in DOMAIN users'
               /\ u \in DOMAIN userStats => u \in DOMAIN userStats']_vars

\* C18 (as claimed), second half: when no binding refers to the player any
\* more, the identity and the statistics are removed and getUserById finds
\* nothing.
C18_RemovedWhenUnreferenced ==
    [][handler'[1] = "cleanup" =>
         \A u \in EvictedPlayers :
             ~ StillBound(u) =>
               /\ u \notin DOMAIN users'
               /\ u \notin DOMAIN userStats'
               /\ getUserById(UM', u) = NoUser]_vars

\* C18 (as claimed): an eviction keeps the identity and the statistics of a
\* player another binding refers to, and removes both otherwise.
C18_EvictionFollowsReferences ==
    [][handler'[1] = "cleanup" =>
         \A u \in EvictedPlayers :
             IF StillBound(u)
             THEN /\ u \in DOMAIN users => u \in DOMAIN users'
                  /\ u \in DOMAIN userStats => u \in DOMAIN userStats'
             ELSE /\ u \notin DOMAIN users'
                  /\ u \notin DOMAIN userStats'
                  /\ getUserById(UM', u) = NoUser]_vars

\* ws is an identified connection of the binding stored under its stripped
\* fingerprint.
LiveBinding(ws) ==
    LET stable == getStableFingerprint(connectedClients[ws].browserFingerprint)
    IN  /\ connectedClients[ws].userId # NoId
        /\ stable \in DOMAIN browserToUser
        /\ browserToUser[stable] = connectedClients[ws].userId

\* C19 (as claimed), eviction: a sweep does not evict the binding of a live
\* identified connection.
C19_SweepKeepsLiveBinding ==
    [][\A ws \in DOMAIN connectedClients :
         (handler'[1] = "cleanup" /\ LiveBinding(ws))
         => getStableFingerprint(connectedClients[ws].browserFingerprint)
              \in DOMAIN browserToUser']_vars

\* C19 (as claimed): a sweep neither marks offline nor evicts the binding of
\* a live identified connection, whatever raw fingerprint it presented.
C19_SweepSparesLiveBinding ==
    [][\A ws \in DOMAIN connectedClients :
         (handler'[1] = "cleanup" /\ LiveBinding(ws))
         => /\ getStableFingerprint(connectedClients[ws].browserFingerprint)
                 \in DOMAIN browserToUser'
            /\ bindingObj[connectedClients[ws].userId].status = "online"
                 => bindingObj'[connectedClients[ws].userId].status = "online"]_vars

Malformed(m) ==
    \/ ~ m.parses
    \/ m.type = "identity" /\ m.browserFingerprint = NoFp
    \/ m.type = "updateName" /\ m.userName = NoName

BindingNames == [u \in DOMAIN bindingObj |-> bindingObj[u].userName]

\* C21 (as claimed): a frame that cannot be parsed, an identity message
\* without browserFingerprint or an updateName without userName is relayed to
\* no connection, leaves the identities and the bindings as they are, and
\* leaves the sender's connection open.
C21_MalformedFrameDropped ==
    [][\A ws \in DOMAIN connectedClients : \A m \in MsgFrames :
         (Malformed(m) /\ HandleFrame(ws, m))
         => /\ outbox'.to = {}
            /\ users' = users
            /\ browserToUser' = browserToUser
            /\ BindingNames' = BindingNames
            /\ ws \in DOMAIN connectedClients'
            /\ ws \notin wsClosing'
            /\ closedWith' = NoClose]_vars

\* The part of C21 about frames JSON.parse rejects.
C21_UnparsedFrameDropped ==
    [][\A ws \in DOMAIN connectedClients :
         HandleFrame(ws, NoFrame)
         => /\ outbox'.to = {}
            /\ users' = users
            /\ browserToUser' = browserToUser
            /\ BindingNames' = BindingNames
            /\ ws \in DOMAIN connectedClients'
            /\ ws \notin wsClosing']_vars

\* The step is handleMessage taking the updateName message m from ws.
Renames(ws, m) == IsUpdateName(m) /\ HandleFrame(ws, m)

\* The name of userId is name: in getUserById and through every binding that
\* carries the id.
NamedEverywhere(um, userId, name) ==
    /\ getUserById(um, userId).name = name
    /\ \A i \in DOMAIN FingerprintsOf(um, userId) :
           um.bindingObj[um.browserToUser[FingerprintsOf(um, userId)[i]]].userName = name

\* C22 (as claimed): updateName for a playerId with no identity record
\* changes no name and no binding and publishes nothing; for a playerId with
\* an identity record the new name is the one getUserById and every binding
\* of the playerId show, and one snapshot is published.
C22_UpdateNameByExistence ==
    [][\A ws \in DOMAIN connectedClients : \A m \in MsgFrames :
         Renames(ws, m)
         => IF m.userId \in DOMAIN users
            THEN /\ Len(broadcasts') = 1
                 /\ NamedEverywhere(UM', m.userId, m.userName)
            ELSE /\ broadcasts' = << >>
                 /\ users' = users
                 /\ browserToUser' = browserToUser
                 /\ BindingNames' = BindingNames]_vars

\* The part of C22 that holds: the same, for a playerId some binding carries
\* and for a playerId with neither a binding nor an identity record.
C22_UpdateNameByBinding ==
    [][\A ws \in DOMAIN connectedClients : \A m \in MsgFrames :
         Renames(ws, m)
         => /\ FingerprintsOf(UM, m.userId) # << >>
                 => /\ Len(broadcasts') = 1
                    /\ NamedEverywhere(UM', m.userId, m.userName)
            /\ (FingerprintsOf(UM, m.userId) = << >> /\ m.userId \notin DOMAIN users)
                 => /\ broadcasts' = << >>
                    /\ users' = users
                    /\ browserToUser' = browserToUser
                    /\ BindingNames' = BindingNames]_vars

GameStats == [u \in DOMAIN userStats |-> userStats[u].game]

\* The step broadcasts an updatePlayerStat message: the one the server builds
\* or the frame as it came.
BroadcastsStat ==
    /\ outbox'.to # {}
    /\ outbox'.kind \in {"updatePlayerStat", "relay"}
    /\ outbox'.frame.type = "updatePlayerStat"

\* C23 (as claimed): an updatePlayerStat message whose name or value the
\* message-level validation does not accept changes no statistics and no
\* updatePlayerStat message is broadcast; a name the setter accepts has a
\* rule in the message-level validation.
C23_InvalidStatRejected ==
    [][\A ws \in DOMAIN connectedClients : \A m \in StatFrames :
         HandleFrame(ws, m)
         => /\ ~ validatePlayerStat(m.stat, m.value)
                 => /\ GameStats' = GameStats
                    /\ ~ BroadcastsStat
            /\ StatAllowed(m.stat) => HasValidationRule(m.stat)]_vars

\* The part of C23 that holds: a message that carries a name and a value and
\* fails the validation changes no statistics and is not broadcast; one that
\* passes is stored and broadcast to every open connection.
C23_ValidationGuardsSetter ==
    [][\A ws \in DOMAIN connectedClients : \A m \in StatFrames :
         (IsUpdatePlayerStat(m) /\ HandleFrame(ws, m))
         => IF validatePlayerStat(m.stat, m.value)
            THEN /\ userStats'[m.userId].game[m.stat] = m.value
                 /\ outbox'.kind = "updatePlayerStat"
                 /\ outbox'.to = OpenClients(connectedClients, wsClosing)
            ELSE /\ GameStats' = GameStats
                 /\ outbox'.to = {}]_vars

\* C24: a step that publishes a snapshot delivers it to every open connection
\* whose send does not throw, whichever sends throw; a getUsers publish with
\* throwing sockets leaves the registry and the identities as they are; a
\* socket that starts throwing changes neither.
C24_SendFailureIsolated ==
    [][/\ Len(broadcasts') = 1
          => /\ outbox'.kind = "userList"
             /\ outbox'.to = OpenClients(connectedClients', wsClosing') \ sendFails
       /\ ((handler'[1] = "getUsers" /\ sendFails # {}) \/ handler'[1] = "socketFault")
          => /\ connectedClients' = connectedClients
             /\ wsClosing' = wsClosing
             /\ users' = users
             /\ browserToUser' = browserToUser]_vars

\* C24 witness: a snapshot has been published while the send to an open
\* connection throws, and a connection accepted after that one received it.
C24_Witness ==
    /\ Len(broadcasts) = 1
    /\ outbox.kind = "userList"
    /\ \E f \in OpenClients(connectedClients, wsClosing) \cap sendFails :
           \E c \in outbox.to : f < c

\* The numbers of the guest names the identities and the bindings carry.
GuestNumbers ==
    {users[u].name[2] : u \in {x \in DOMAIN users : users[x].name[1] = "Guest"}}
    \cup {bindingObj[u].userName[2] :
            u \in {x \in DOMAIN bindingObj : bindingObj[x].userName[1] = "Guest"}}

\* The step creates an identity for a claim that carries no name.
CreatesGuest ==
    \E ws \in DOMAIN pending :
        /\ Resolves(ws)
        /\ ~ pending'[ws].result.isReturning
        /\ pending[ws].providedUserName = NoName

\* C25: the guest counter never decreases; it advances, by one, exactly in
\* the steps that create an identity for a claim without a name, and the
\* identity then gets Guest<N> for the N the counter had; every guest name
\* in use has a number the counter has passed, so that no number is given
\* twice, whatever was closed or evicted in between.
C25_GuestNamesIncrease ==
    /\ [](\A n \in GuestNumbers : n < guestCounter)
    /\ [][/\ guestCounter' >= guestCounter
          /\ guestCounter' # guestCounter <=> CreatesGuest
          /\ CreatesGuest
               => /\ guestCounter' = guestCounter + 1
                  /\ \E ws \in DOMAIN pending :
                        /\ Resolves(ws)
                        /\ pending'[ws].result.userName = GuestName(guestCounter)
                        /\ users'[pending'[ws].result.userId].name
                             = GuestName(guestCounter)]_vars

\* C25 witness: the only identity there is carries Guest2: its first guest
\* name was given before its binding was evicted, the second after.
C25_Witness ==
    /\ DOMAIN users = {ClientId1}
    /\ users[ClientId1].name = GuestName(2)
    /\ guestCounter = 3
    /\ handler[1] = "processUserIdentity"

C26_SecondTeardownChangesNothing ==
    [][\A ws \in Conns :
         (handler' = <<"handleClose", ws>> /\ ws \notin DOMAIN connectedClients)
         => /\ connectedClients' = connectedClients
            /\ UsersStatus' = UsersStatus
            /\ BindingStatus' = BindingStatus
            /\ StatsStatus' = StatsStatus]_vars

\* C27 (as claimed): while the identity claim of a connection is being
\* handled, no later message of that connection is handled: the handler of
\* such a message runs only once the claim is resolved and the connection
\* carries the playerId.
C27_MessagesWaitForClaim ==
    [][\A ws \in DOMAIN pending :
         handler' \notin {<<"handleMessage", ws>>, <<"getUsers", ws>>}]_vars

\* The claim pending on ws presents browser a with a timestamp suffix and the
\* userId that the binding of browser a, the only binding of that userId,
\* carries; the step resolves it.
ResolvesSuffixed(ws) ==
    /\ Resolves(ws)
    /\ pending[ws].browserFingerprint = FpATs
    /\ pending[ws].providedUserId = ClientId1
    /\ FingerprintsOf(UM, ClientId1) = <<FpA>>

\* The entries of userId in the snapshot of the manager um.
SnapshotEntriesOf(um, userId) ==
    {i \in DOMAIN broadcastUserList(um).users : broadcastUserList(um).users[i].id = userId}

\* C28 (as claimed): the suffixed claim resolves to the same identity, after
\* which two bindings carry the userId and the snapshot has one entry for it.
C28_SuffixedClaimAddsBinding ==
    [][\A ws \in DOMAIN pending :
         ResolvesSuffixed(ws)
         => /\ pending'[ws].result.userId = ClientId1
            /\ Len(FingerprintsOf(UM', ClientId1)) = 2
            /\ Cardinality(SnapshotEntriesOf(UM', ClientId1)) = 1]_vars

\* C28 (amended): the suffixed claim resolves to the same identity as a
\* returning player through the binding of the normalized fingerprint; no
\* binding is added, one binding carries the userId, and the snapshot has
\* one entry for it.
C28_SuffixedClaimReusesBinding ==
    [][\A ws \in DOMAIN pending :
         ResolvesSuffixed(ws)
         => /\ pending'[ws].result.userId = ClientId1
            /\ pending'[ws].result.isReturning
            /\ browserToUser' = browserToUser
            /\ FingerprintsOf(UM', ClientId1) = <<FpA>>
            /\ Cardinality(SnapshotEntriesOf(UM', ClientId1)) = 1]_vars

\* C28 witness: a connection identified with browser a is bound to the
\* userId, and the suffixed claim of a second connection has just resolved
\* to the same userId.
C28_Witness ==
    \E ws \in DOMAIN pending : \E first \in DOMAIN connectedClients :
        /\ handler = <<"processUserIdentity", ws>>
        /\ pending[ws].browserFingerprint = FpATs
        /\ pending[ws].providedUserId = ClientId1
        /\ pending[ws].result.userId = ClientId1
        /\ first # ws
        /\ connectedClients[first].browserFingerprint = FpA
        /\ connectedClients[first].userId = ClientId1
        /\ FingerprintsOf(UM, ClientId1) = <<FpA>>

\* The ws objects handleConnection has turned away (no ws is removed from the
\* registry in SpecGate).
TurnedAway == (1..(nextConn - 1)) \ DOMAIN connectedClients

\* C29: a connection attempt the rate limiter rejects is closed with code
\* 1008 and not registered; a ws turned away is never registered later, and
\* no handler ever runs for it.
C29_RejectedAttemptClosed ==
    [][/\ (handler'[1] = "handleConnection" /\ ~ lastAdmit'.allowed)
            => /\ closedWith' = <<nextConn, 1008>>
               /\ connectedClients' = connectedClients
               /\ nextConn \in TurnedAway'
       /\ \A ws \in TurnedAway :
            /\ ws \in TurnedAway'
            /\ handler' # <<"handleMessage", ws>>]_vars

\* C29 witness: an attempt has been turned away with code 1008 and, later, a
\* message of a registered connection has been handled.
C29_Witness ==
    /\ TurnedAway # {}
    /\ handler[1] = "handleMessage"
    /\ \E ws \in TurnedAway : handler[2] > ws

\* The step is a claim resolving to the bound player u with a name that
\* differs from the stored one.
RenamesByClaim(u, name) ==
    \E ws \in DOMAIN pending :
        /\ Resolves(ws)
        /\ pending'[ws].result.isReturning
        /\ pending'[ws].result.userId = u
        /\ pending[ws].providedUserName = name
        /\ name # NoName
        /\ name # bindingObj[u].userName

\* The step is an updateName message for the bound player u.
RenamesByMessage(u, name) ==
    \E ws \in DOMAIN connectedClients : \E m \in MsgFrames :
        /\ Renames(ws, m)
        /\ m.userId = u
        /\ m.userName = name

\* Every entry of userId in the snapshot of um carries name, and there is one.
ShownAs(um, userId, name) ==
    /\ SnapshotEntriesOf(um, userId) # {}
    /\ \A i \in SnapshotEntriesOf(um, userId) : broadcastUserList(um).users[i].name = name

\* C30: a rename of a bound player, by a claim that matches a binding and
\* supplies another name or by updateName, makes the supplied name the name
\* in the binding, in the identity record and in the snapshot; no other step
\* changes the name of a player that stays bound, so that the name shown is
\* the one of the last rename.
C30_LastRenameWins ==
    [][\A u \in DOMAIN bindingObj :
         /\ \A name \in {GivenName(1), GivenName(2)} :
              (RenamesByClaim(u, name) \/ RenamesByMessage(u, name))
              => /\ bindingObj'[u].userName = name
                 /\ users'[u].name = name
                 /\ NamedEverywhere(UM', u, name)
                 /\ ShownAs(UM', u, name)
         /\ ( /\ u \in DOMAIN bindingObj'
              /\ \A name \in {GivenName(1), GivenName(2)} :
                    ~ RenamesByClaim(u, name) /\ ~ RenamesByMessage(u, name) )
              => /\ bindingObj'[u].userName = bindingObj[u].userName
                 /\ users'[u].name = users[u].name]_vars

\* C30 witness: the second of two connections has just claimed the player
\* the first one created under a guest name, supplying a name, and the
\* player carries that name; no time has passed, so nothing was evicted.
C30_Witness ==
    \E ws \in DOMAIN pending :
        /\ handler = <<"processUserIdentity", ws>>
        /\ pending[ws].result.isReturning
        /\ pending[ws].providedUserName = GivenName(1)
        /\ nextConn = 3
        /\ now = TickMs
        /\ guestCounter = 2
        /\ DOMAIN users = {ClientId1}
        /\ users[ClientId1].name = GivenName(1)
        /\ bindingObj[ClientId1].userName = GivenName(1)

\* The number of identity claims one connection makes when it claims again.
ReclaimClaims == 2

\* Connections that send a second identity message, with the same or with
\* another fingerprint, between other messages and closes.
NextReclaim ==
    \/ HandleConnection(Ip1, MaxConns)
    \/ \E ws \in 1..MaxConns, fp \in {FpA, FpB}, id \in {NoId, ClientId1} :
           IdentityClaim(ws, fp, id, NoName, ReclaimClaims)
    \/ \E ws \in 1..MaxConns : ResolveIdentity(ws)
    \/ \E ws \in 1..MaxConns : IdentityFinish(ws)
    \/ \E ws \in 1..MaxConns : HandleClose(ws)
    \/ \E ws \in 1..MaxConns : HandleMessage(ws)

SpecReclaim == Init /\ [][NextReclaim]_vars

\* The number of chat messages added, three more than the history holds.
ChatAdds == 103

\* The text of a chat message.
ChatText == <<"h", "i">>

\* A connection that sends chat messages under one userId, before and after
\* it has identified as that player, until more messages were added than
\* the history holds.
NextChat ==
    \/ HandleConnection(Ip1, 1)
    \/ IdentityStart(1, FpA, ClientId1, NoName)
    \/ ResolveIdentity(1)
    \/ IdentityFinish(1)
    \/ HandleChatMessage(1, ClientId1, ChatText, ChatAdds)

SpecChat == Init /\ [][NextChat]_vars

\* The userIds that voice frames name: a player that identifies, and one
\* that never does.
VoiceUsers == {ClientId1, ClientId(2)}

\* Connections that identify as one player, join and leave the voice chat,
\* talk, mute and close.
NextVoice ==
    \/ HandleConnection(Ip1, MaxConns)
    \/ \E ws \in 1..MaxConns : IdentityStart(ws, FpA, ClientId1, NoName)
    \/ \E ws \in 1..MaxConns : ResolveIdentity(ws)
    \/ \E ws \in 1..MaxConns : IdentityFinish(ws)
    \/ \E ws \in 1..MaxConns : HandleClose(ws)
    \/ \E ws \in 1..MaxConns, userId \in VoiceUsers : HandleVoiceJoin(ws, userId)
    \/ \E ws \in 1..MaxConns, userId \in VoiceUsers : HandleVoiceLeave(ws, userId)
    \/ \E ws \in 1..MaxConns, userId \in VoiceUsers, isTalking \in BOOLEAN :
           HandleVoiceActivity(ws, userId, isTalking)
    \/ \E ws \in 1..MaxConns, userId \in VoiceUsers, muted \in BOOLEAN :
           HandleVoiceMute(ws, userId, muted)

SpecVoice == Init /\ [][NextVoice]_vars

\* C31: a getUsers message from any connection, identified or not, causes one
\* presence publish, and the snapshot is sent to every connection that is
\* open at that moment and whose socket accepts the send, the connections
\* that have not identified included.
C31_GetUsersPublishesToAll ==
    [][\A ws \in 1..SendConns :
         handler' = <<"getUsers", ws>>
         => /\ Len(broadcasts') = 1
            /\ outbox'.kind = "userList"
            /\ outbox'.to = {c \in DOMAIN connectedClients :
                                c \notin wsClosing /\ c \notin sendFails}]_vars

\* C31 witness: a connection that has not identified asked for the list, and
\* the snapshot went to it, to another connection that has not identified and
\* to an identified one.
C31_Witness ==
    /\ handler[1] = "getUsers"
    /\ Len(broadcasts) = 1
    /\ handler[2] \in outbox.to
    /\ connectedClients[handler[2]].userId = NoId
    /\ \E c \in outbox.to \ {handler[2]} : connectedClients[c].userId = NoId
    /\ \E c \in outbox.to : connectedClients[c].userId # NoId

\* The playerIds whose identity is online in the users table.
OnlinePlayers == {u \in DOMAIN users : users[u].status = "online"}

\* C32: closed is terminal. A step of an identity claim taken for a
\* connection that has already been removed from the registry does not put
\* the connection back, creates no binding and sets no identity online.
C32_ClosedIsTerminal ==
    [][\A ws \in 1..MaxConns :
         ( /\ ws \in DOMAIN pending
           /\ ws \notin DOMAIN connectedClients
           /\ handler'[1] \in {"processUserIdentity", "handleIdentityResult"}
           /\ handler'[2] = ws )
         => /\ ws \notin DOMAIN connectedClients'
            /\ DOMAIN browserToUser' \subseteq DOMAIN browserToUser
            /\ {u \in DOMAIN users' : users'[u].status = "online"}
                  \subseteq OnlinePlayers]_vars

\* C33: when a connection whose player is a voice participant closes,
\* handleClose removes that player from the participant, talking, muted and
\* no-mic sets and sends a voiceLeave that names it.
C33_CloseLeavesVoice ==
    [][\A ws \in 1..MaxConns :
         ( /\ handler' = <<"handleClose", ws>>
           /\ ws \in DOMAIN connectedClients
           /\ connectedClients[ws].userId # NoId
           /\ connectedClients[ws].userId \in voice.voiceParticipants )
         => LET userId == connectedClients[ws].userId
            IN  /\ userId \notin voice'.voiceParticipants
                /\ userId \notin voice'.talkingUsers
                /\ userId \notin voice'.mutedUsers
                /\ userId \notin voice'.noMicUsers
                /\ \E i \in DOMAIN voiceSent' :
                       /\ voiceSent'[i].type = "voiceLeave"
                       /\ voiceSent'[i].userId = userId]_vars

\* C34: the three places that hold a player's status agree. For every
\* binding, the status of the binding equals the status in the users record
\* and the status in the statistics record of the binding's playerId.
C34_StatusesAgree ==
    \A fp \in DOMAIN browserToUser :
        LET userId == browserToUser[fp]
        IN  /\ userId \in DOMAIN users
            /\ userId \in DOMAIN userStats
            /\ bindingObj[userId].status = users[userId].status
            /\ bindingObj[userId].status = userStats[userId].status

\* C35: the statistics table only holds known players. Every playerId that
\* has a statistics record is referenced by at least one binding.
C35_StatsOnlyForKnownPlayers ==
    \A userId \in DOMAIN userStats :
        \E fp \in DOMAIN browserToUser : browserToUser[fp] = userId

\* C36: once a connection is identified its playerId and its fingerprint
\* never change while it is registered, and a later identity claim on it
\* does not leave the player it carried before online without a connection.
C36_IdentifiedNeverRebinds ==
    [][\A ws \in 1..MaxConns :
         ( /\ ws \in DOMAIN connectedClients
           /\ ws \in DOMAIN connectedClients'
           /\ connectedClients[ws].userId # NoId )
         => LET userId == connectedClients[ws].userId
            IN  /\ connectedClients'[ws].userId = userId
                /\ connectedClients'[ws].browserFingerprint
                     = connectedClients[ws].browserFingerprint
                /\ ( /\ handler' = <<"handleIdentityResult", ws>>
                     /\ userId \in DOMAIN users'
                     /\ users'[userId].status = "online" )
                   => \E c \in DOMAIN connectedClients' :
                          connectedClients'[c].userId = userId]_vars

\* C37: every registered connection that carries a playerId also carries a
\* fingerprint, and a binding exists for the normalized form of that
\* fingerprint whose playerId is the connection's playerId.
C37_IdentifiedConnectionHasBinding ==
    \A ws \in DOMAIN connectedClients :
        connectedClients[ws].userId # NoId
        => LET stable == getStableFingerprint(connectedClients[ws].browserFingerprint)
           IN  /\ connectedClients[ws].browserFingerprint # NoFp
               /\ stable \in DOMAIN browserToUser
               /\ browserToUser[stable] = connectedClients[ws].userId

\* The number of attempts of ip that were admitted less than 60 seconds
\* before now.
AdmittedInWindow(ip) ==
    LET times == IF ip \in DOMAIN admitted THEN admitted[ip] ELSE << >>
    IN  Cardinality({i \in DOMAIN times : now - times[i] < 60000})

\* C38: for every address, at most 20 connection attempts are admitted in any
\* 60 seconds, whatever the sequence of attempts, those made right after a
\* block has expired included.
C38_AtMostTwentyPerWindow ==
    \A ip \in {Ip1, Ip2} : AdmittedInWindow(ip) <= 20

\* C38 witness: a block of the address has expired, and since then 20
\* attempts were admitted inside one window, the last of them just now.
C38_Witness ==
    /\ handler[1] = "handleConnection"
    /\ lastAdmit = [ip |-> Ip1, allowed |-> TRUE]
    /\ ipConnections[Ip1].blockedUntil # 0
    /\ now >= ipConnections[Ip1].blockedUntil
    /\ AdmittedInWindow(Ip1) = 20
    /\ \E i \in DOMAIN admitted[Ip1] : admitted[Ip1][i] < now

\* The number of chat messages added so far.
MessagesAdded == IF messages = << >> THEN 0 ELSE messages[Len(messages)].id

\* C39: the chat history never holds more than 100 messages. After n
\* messages were added it holds the most recent min(n, 100) of them in the
\* order in which they were added.
C39_HistoryKeepsLastHundred ==
    LET n == MessagesAdded
        kept == IF n < 100 THEN n ELSE 100
    IN  /\ Len(messages) <= 100
        /\ Len(messages) = kept
        /\ \A i \in DOMAIN messages : messages[i].id = n - kept + i

\* C39 witness: more than 100 messages were added, the oldest ones are gone,
\* and the history holds messages of a known and of an unknown sender.
C39_Witness ==
    /\ handler[1] = "chatMessage"
    /\ MessagesAdded > 100
    /\ Len(messages) = 100
    /\ messages[1].id > 1
    /\ \E i \in DOMAIN messages : messages[i].userName = UnknownUser
    /\ \E i \in DOMAIN messages : messages[i].userName # UnknownUser

====
